---- MODULE Spec2Model ----
(***************************************************************************)
(* Model of the request engine of my-vue-hooks: useAxiosFetch              *)
(* (hooks/useFetch/axiosFetch.ts) and useFetch (hooks/useFetch/fetch.ts),  *)
(* with the retry helpers of hooks/useFetch/fetchUtils.ts.                 *)
(*                                                                         *)
(* One facade instance is modelled.  JavaScript runs every handler to its  *)
(* next `await`, so one action of the model is the code between two        *)
(* suspension points: the synchronous prefix of execute(), the             *)
(* continuation after the transport call settles, the continuation after   *)
(* the onFetchError interceptor settles, a retry timer firing, abort(),    *)
(* and the online / offline / visibilitychange / unmount handlers.         *)
(*                                                                         *)
(* A "chain" is one caller-level execute() together with the retries it    *)
(* spawns (nested `await execute(true)` or setTimeout(execute(true))).     *)
(***************************************************************************)
EXTENDS Integers, Sequences, FiniteSets, TLC

\* ------------------------------------------------------------------ bounds
\* caller-level execute() invocations (manual or reactive) per behaviour
MaxChains == 2
\* largest retryCount of a facade whose single execute() is followed (SpecSingle)
MaxRetryCount == 3
\* largest retryCount of a facade whose executions overlap (Spec)
MaxOverlapRetry == 1
\* largest retryCount of a facade with interceptors and observers (SpecStages, SpecAbort)
MaxStageRetry == 1
\* executions of useFetch whose controllers and timeout timers are followed (SpecWiring)
MaxAttempts == 2
\* callbacks registered with onFetchResponse
MaxCallbacks == 2
\* values the reactive url takes
MaxUrls == 2

Chains == 1..MaxChains

\* ------------------------------------------------------------------ errors
\* A message is the sequence of its words; `msg.toLowerCase().indexOf(w) !== -1`
\* is modelled word by word (every needle of the code is one word).
LowerWord(w) ==
  CASE w = "Timeout" -> "timeout"
    [] w = "Gateway" -> "gateway"
    [] w = "Network" -> "network"
    [] w = "Error"   -> "error"
    [] w = "Request" -> "request"
    [] w = "Not"     -> "not"
    [] w = "Found"   -> "found"
    [] w = "Internal" -> "internal"
    [] w = "Server"  -> "server"
    [] w = "Failed"  -> "failed"
    [] w = "HTTP"    -> "http"
    [] OTHER         -> w

ToLowerCase(msg) == [i \in DOMAIN msg |-> LowerWord(msg[i])]

\* msg.toLowerCase().indexOf(needle) !== -1
Includes(msg, needle) == \E i \in DOMAIN msg : ToLowerCase(msg)[i] = needle

\* response.statusText of the reason phrases of HTTP/1.1; <<>> is the empty
\* status text of an HTTP/2 response.
StatusText(status) ==
  CASE status = 404 -> <<"Not", "Found">>
    [] status = 408 -> <<"Request", "Timeout">>
    [] status = 500 -> <<"Internal", "Server", "Error">>
    [] status = 504 -> <<"Gateway", "Timeout">>
    [] OTHER        -> <<>>

\* status 0 stands for "no response / undefined"
NoStatus == 0

ErrorStatuses == {404, 408, 500}

\* the value error.value / the error observers would show for this error
HttpId(status) ==
  CASE status = 404 -> "http404"
    [] status = 408 -> "http408"
    [] status = 500 -> "http500"
    [] OTHER        -> "http"

MkError(id, name, code, msg, hasResponse, status, hasRequest, cancel) ==
  [id |-> id, name |-> name, code |-> code, msg |-> msg,
   hasResponse |-> hasResponse, status |-> status,
   hasRequest |-> hasRequest, cancel |-> cancel]

\* useFetch: `new Error("HTTP <status>: <statusText>")` with .response attached
FetchHttpError(status, statusText) ==
  MkError(HttpId(status), "Error", "", <<"HTTP">> \o statusText,
          TRUE, status, FALSE, FALSE)

\* axios: AxiosError "Request failed with status code <status>"
AxiosHttpError(status) ==
  MkError(HttpId(status), "AxiosError",
          IF status >= 500 THEN "ERR_BAD_RESPONSE" ELSE "ERR_BAD_REQUEST",
          <<"Request", "failed", "with", "status", "code">>,
          TRUE, status, TRUE, FALSE)

AxiosNetworkError ==
  MkError("network", "AxiosError", "ERR_NETWORK", <<"Network", "Error">>,
          FALSE, NoStatus, TRUE, FALSE)

AxiosTimeoutError ==
  MkError("timeout", "AxiosError", "ECONNABORTED",
          <<"timeout", "of", "5000ms", "exceeded">>,
          FALSE, NoStatus, TRUE, FALSE)

\* axios.Cancel / CanceledError: axios.isCancel(err) is true
AxiosCancel ==
  MkError("cancel", "CanceledError", "ERR_CANCELED", <<"canceled">>,
          FALSE, NoStatus, FALSE, TRUE)

\* fetch rejects with TypeError "Failed to fetch"
FetchNetworkError ==
  MkError("network", "TypeError", "", <<"Failed", "to", "fetch">>,
          FALSE, NoStatus, FALSE, FALSE)

\* fetch rejects with DOMException AbortError when its signal is aborted,
\* by abort() or by the timeout controller
FetchAbortError ==
  MkError("cancel", "AbortError", "", <<"signal", "is", "aborted">>,
          FALSE, NoStatus, FALSE, FALSE)

\* fetch rejects with the same DOMException AbortError when the timeout
\* controller aborted the signal
FetchTimeoutAbort ==
  MkError("timeout", "AbortError", "", <<"signal", "is", "aborted">>,
          FALSE, NoStatus, FALSE, FALSE)

\* an Error thrown or returned by afterFetch, or thrown by a response observer
InterceptorError ==
  MkError("interceptor", "Error", "", <<"rejected">>,
          FALSE, NoStatus, FALSE, FALSE)

\* ----------------------------------------------------------- fetchUtils.ts
\* The Chinese needles of the code are written in pinyin: chaoshi (timeout),
\* wangluo (network), lianjie (connection).
isTimeoutError(e) ==
  \/ e.code \in {"ECONNABORTED", "ETIMEDOUT", "TIMEOUT", "AbortError"}
  \/ e.status = 504
  \/ Includes(e.msg, "timeout") \/ Includes(e.msg, "chaoshi") \/ Includes(e.msg, "gateway")
  \/ (e.hasRequest /\ ~e.hasResponse /\ e.code \notin {"ENOTFOUND", "ECONNREFUSED"})
  \/ (e.name = "AxiosError" /\ e.hasRequest /\ ~e.hasResponse)

\* isNetworkError without its first test `!hasResponse`
isNetworkError_NeedsRequest(e) ==
  \/ e.code \in {"ENOTFOUND", "ECONNRESET", "ECONNREFUSED", "ENETUNREACH",
                 "ERR_NETWORK", "ERR_INTERNET_DISCONNECTED"}
  \/ Includes(e.msg, "network") \/ Includes(e.msg, "connection")
  \/ Includes(e.msg, "wangluo") \/ Includes(e.msg, "lianjie") \/ Includes(e.msg, "fetch")
  \/ (e.hasRequest /\ ~e.hasResponse /\ ~isTimeoutError(e))

isNetworkError(e) ==
  \/ ~e.hasResponse
  \/ e.code \in {"ENOTFOUND", "ECONNRESET", "ECONNREFUSED", "ENETUNREACH",
                 "ERR_NETWORK", "ERR_INTERNET_DISCONNECTED"}
  \/ Includes(e.msg, "network") \/ Includes(e.msg, "connection")
  \/ Includes(e.msg, "wangluo") \/ Includes(e.msg, "lianjie") \/ Includes(e.msg, "fetch")
  \/ (e.hasRequest /\ ~e.hasResponse /\ ~isTimeoutError(e))

isServerError(e) == e.hasResponse /\ e.status # NoStatus /\ e.status >= 500

\* shouldRetry counting retryCount as the number of attempts
shouldRetry_OffByOne(e, retry, currentRetryCnt, retryCount, isCancelError) ==
  LET canRetry == retry /\ currentRetryCnt + 1 < retryCount
  IN  /\ canRetry
      /\ ~isCancelError
      /\ (isTimeoutError(e) \/ isNetworkError(e) \/ isServerError(e)
            \/ (~e.hasResponse /\ e.hasRequest))

\* shouldRetry without the `retry &&` of canRetry
shouldRetry_IgnoresFlag(e, retry, currentRetryCnt, retryCount, isCancelError) ==
  LET canRetry == currentRetryCnt < retryCount
  IN  /\ canRetry
      /\ ~isCancelError
      /\ (isTimeoutError(e) \/ isNetworkError(e) \/ isServerError(e)
            \/ (~e.hasResponse /\ e.hasRequest))

shouldRetry(e, retry, currentRetryCnt, retryCount, isCancelError) ==
  LET canRetry == retry /\ currentRetryCnt < retryCount
  IN  /\ canRetry
      /\ ~isCancelError
      /\ (isTimeoutError(e) \/ isNetworkError(e) \/ isServerError(e)
            \/ (~e.hasResponse /\ e.hasRequest))

\* ------------------------------------------------------------------- state
VARIABLES
  cfg,          \* the merged options of the facade (fixed at construction)
  online,       \* navigator.onLine
  hidden,       \* document.hidden
  mounted,      \* "setup" | "mounted" | "unmounted": are the listeners attached
  data, error, loading, isFinished, statusCode, canAbort, aborted,
  cancelTokenSource,        \* 0 (null) or the chain whose attempt created it
  currentRetryCount,
  retryTimer,               \* 0 (null) or the chain whose setTimeout handle it holds
  wasOfflineDuringRequest,
  isVisible,
  wasCancelledDueToBlur,
  pc,           \* per chain: where its current invocation of execute() is suspended
  cancelled,    \* per chain: has the token / AbortController of its current attempt been cancelled
  timeoutAborted, \* per chain (useFetch with timeout): has the timeout controller of its call been aborted
  link,         \* per chain (useFetch with timeout): 0 or the chain whose AbortController its timeout controller is wired to
  triggered,    \* per chain: beforeFetch of its current attempt invoked cancel() (history)
  notified,     \* per chain: the response observers its current attempt has called so far, with the payload of the response each was given
  retried,      \* per chain: has it gone through the retry branch
  current,      \* the stored request configuration: currentMethod, currentData, currentResponseType
  request,      \* per chain: the request its current attempt built, and the response type its response was decoded with (history)
  attempts,     \* per chain: the attempt numbers its retries passed to getRetryDelay, in order (history)
  ret,          \* per chain: what the promise of the caller's execute() resolved with
  calls,        \* per chain: transport calls issued (history)
  endKind,      \* per chain: how its last invocation returned (history)
  seen,         \* per chain: how its transport calls settled so far (history)
  log,          \* per chain: the stages its current attempt has entered, in order (history)
  hooks,        \* per chain: invocations of onFetchError and of the error observers (history)
  onFetchErrorResult, \* per chain: how its onFetchError interceptor settled (history)
  abortedInFlight, \* abort() hit an in-flight transport call since the last execute() (history)
  source,       \* the reactive url: its value, the value the watcher saw last, is the watcher job queued
  defaultOptions, \* the global default options of the manager of the hook
  mergedOptions,  \* the request constructed last: its explicit options and its merged options
  table,        \* the table hook: its options, pagination state, source or fetcher answer, and data
  got,          \* the object the caller holds from the last get(): its own keys, the keys whose nested object is still the one the manager holds, and was it written to
  pair,         \* the comparison of the transports: which facade is running, the transport outcomes to replay, and the caller-visible states each facade went through (history)
  controllers,  \* useFetch with timeout: the AbortController objects, their abort functions and the timeout timers
  audit         \* are the per-chain histories (retried, ret, calls, endKind, seen) recorded

envVars    == <<cfg, online, hidden, mounted>>
facadeVars == <<data, error, loading, isFinished, statusCode, canAbort, aborted>>
innerVars  == <<cancelTokenSource, currentRetryCount, retryTimer,
                wasOfflineDuringRequest, isVisible, wasCancelledDueToBlur>>
chainVars  == <<pc, cancelled, timeoutAborted, link, triggered, notified,
                retried, attempts, ret, calls, endKind, seen, log, hooks, onFetchErrorResult,
                request>>
vars == <<envVars, facadeVars, innerVars, chainVars, abortedInFlight, source, current,
         pair, controllers, audit, table, defaultOptions, mergedOptions, got>>

\* ------------------------------------------- deepMerge and the default options
\* An options object is a function from some of the Keys to values; a value is
\* undefined, a scalar (anything isPlainObject rejects), or a plain object: a
\* function from some of the SubKeys to scalars or undefined.
Keys    == {"timeout", "headers"}
SubKeys == {"a", "b"}
Scalars == {"x", "y"}

EmptyObject == [j \in {} |-> "undefined"]

UndefinedValue == [kind |-> "undefined", v |-> "undefined", obj |-> EmptyObject]
ScalarValue(v) == [kind |-> "scalar", v |-> v, obj |-> EmptyObject]
PlainValue(o)  == [kind |-> "plain", v |-> "undefined", obj |-> o]

PlainObjects == UNION {[J -> Scalars \cup {"undefined"}] : J \in SUBSET SubKeys}

\* timeout is a scalar; headers is a plain object, a scalar (a Headers
\* instance, an array) or given as undefined
ValuesOf(key) ==
  IF key = "timeout"
    THEN {ScalarValue(v) : v \in Scalars}
    ELSE {UndefinedValue, ScalarValue("x")} \cup {PlainValue(o) : o \in PlainObjects}

OptionObjects ==
  UNION {{o \in [K -> UNION {ValuesOf(k) : k \in K}] : \A k \in K : o[k] \in ValuesOf(k)}
           : K \in SUBSET Keys}

\* isPlainObject(value)
isPlainObject(value) == value.kind = "plain"

\* deepMerge on the values of a plain object, none of which is a plain object:
\* an undefined value of source is skipped, any other replaces
deepMergeNested(target, src) ==
  [j \in DOMAIN target \cup {i \in DOMAIN src : src[i] # "undefined"} |->
     IF j \in DOMAIN src /\ src[j] # "undefined" THEN src[j] ELSE target[j]]

\* deepMerge keeping the value of target where both have one
deepMerge_TargetWins(target, src) ==
  [k \in DOMAIN target \cup {i \in DOMAIN src : src[i] # UndefinedValue} |->
     IF k \in DOMAIN target THEN target[k] ELSE src[k]]

\* deepMerge(target, src): a copy of target in which every own key of
\* source with a value other than undefined is merged recursively, when both
\* values are plain objects, and replaced by the value of source otherwise
deepMerge(target, src) ==
  [k \in DOMAIN target \cup {i \in DOMAIN src : src[i] # UndefinedValue} |->
     IF k \in DOMAIN src /\ src[k] # UndefinedValue
       THEN IF k \in DOMAIN target /\ isPlainObject(src[k]) /\ isPlainObject(target[k])
              THEN PlainValue(deepMergeNested(target[k].obj, src[k].obj))
              ELSE src[k]
       ELSE target[k]]

\* obj[key], undefined when obj has no such key
Get(obj, key) == IF key \in DOMAIN obj THEN obj[key] ELSE UndefinedValue

GetNested(value, j) ==
  IF isPlainObject(value) /\ j \in DOMAIN value.obj THEN value.obj[j] ELSE "undefined"

\* let defaultOptions = {}
EmptyOptions == [k \in {} |-> UndefinedValue]

\* no request constructed yet
NoMerged == [built |-> FALSE, options |-> EmptyOptions, merged |-> EmptyOptions]

NoError == "none"

\* `undefined` as a request body
NoPayload == "undefined"

\* method = 'GET', data undefined, responseType = 'json': the stored
\* configuration of a facade constructed without these options
InitialConfig == [method |-> "GET", data |-> NoPayload, responseType |-> "json"]

\* no request built yet
NoRequest ==
  [method |-> "none", body |-> [kind |-> "none", of |-> NoPayload],
   responseType |-> "none", parsedAs |-> "none"]
NoData  == 0
Null    == 0

\* The mutable program state as one record, so that the code of a handler,
\* which calls execute() and abort() in sequence, composes.
Cur ==
  [online |-> online, hidden |-> hidden, mounted |-> mounted,
   data |-> data, error |-> error, loading |-> loading, isFinished |-> isFinished,
   statusCode |-> statusCode, canAbort |-> canAbort, aborted |-> aborted,
   cancelTokenSource |-> cancelTokenSource, currentRetryCount |-> currentRetryCount,
   retryTimer |-> retryTimer, wasOfflineDuringRequest |-> wasOfflineDuringRequest,
   isVisible |-> isVisible, wasCancelledDueToBlur |-> wasCancelledDueToBlur,
   pc |-> pc, cancelled |-> cancelled, timeoutAborted |-> timeoutAborted,
   link |-> link, triggered |-> triggered, notified |-> notified,
   retried |-> retried, attempts |-> attempts, ret |-> ret,
   calls |-> calls, endKind |-> endKind, seen |-> seen, log |-> log, hooks |-> hooks,
   onFetchErrorResult |-> onFetchErrorResult,
   abortedInFlight |-> abortedInFlight, source |-> source,
   current |-> current, request |-> request]

\* get() was not called
NotGot == [taken |-> FALSE, modified |-> FALSE, top |-> EmptyOptions, shared |-> {}]

\* no table hook was constructed
NoTable == [hook |-> "none"]

\* the manager as created, no request constructed, no table hook
NoDefaults ==
  defaultOptions = EmptyOptions /\ mergedOptions = NoMerged /\ got = NotGot /\ table = NoTable

\* the comparison of the transports is not running
NoPair == [phase |-> "off", script |-> <<>>, first |-> <<>>, second |-> <<>>]

\* the next state of the facade is S
CommitState(S) ==
  /\ online' = S.online /\ hidden' = S.hidden /\ mounted' = S.mounted
  /\ data' = S.data /\ error' = S.error /\ loading' = S.loading
  /\ isFinished' = S.isFinished /\ statusCode' = S.statusCode
  /\ canAbort' = S.canAbort /\ aborted' = S.aborted
  /\ cancelTokenSource' = S.cancelTokenSource
  /\ currentRetryCount' = S.currentRetryCount
  /\ retryTimer' = S.retryTimer
  /\ wasOfflineDuringRequest' = S.wasOfflineDuringRequest
  /\ isVisible' = S.isVisible
  /\ wasCancelledDueToBlur' = S.wasCancelledDueToBlur
  /\ pc' = S.pc /\ cancelled' = S.cancelled
  /\ timeoutAborted' = S.timeoutAborted /\ link' = S.link /\ triggered' = S.triggered
  /\ notified' = S.notified
  /\ abortedInFlight' = S.abortedInFlight
  /\ source' = S.source
  /\ current' = S.current
  /\ retried' = IF audit THEN S.retried ELSE retried
  /\ attempts' = IF audit THEN S.attempts ELSE attempts
  /\ request' = IF audit THEN S.request ELSE request
  /\ ret' = IF audit THEN S.ret ELSE ret
  /\ calls' = IF audit THEN S.calls ELSE calls
  /\ endKind' = IF audit THEN S.endKind ELSE endKind
  /\ seen' = IF audit THEN S.seen ELSE seen
  /\ log' = IF audit THEN S.log ELSE log
  /\ hooks' = IF audit THEN S.hooks ELSE hooks
  /\ onFetchErrorResult' = IF audit THEN S.onFetchErrorResult ELSE onFetchErrorResult

Commit(S) ==
  /\ CommitState(S)
  /\ UNCHANGED <<cfg, audit, table, controllers, pair, defaultOptions, mergedOptions, got>>

\* The record of the state right after useAxiosFetch(url, options) /
\* useFetch(url, options), before `if (immediate) execute()`.
Constructed(isOnline, isHidden) ==
  [online |-> isOnline, hidden |-> isHidden, mounted |-> "setup",
   data |-> NoData, error |-> NoError, loading |-> FALSE, isFinished |-> FALSE,
   statusCode |-> NoStatus, canAbort |-> FALSE, aborted |-> FALSE,
   cancelTokenSource |-> Null, currentRetryCount |-> 0,
   retryTimer |-> Null, wasOfflineDuringRequest |-> FALSE,
   isVisible |-> ~isHidden, wasCancelledDueToBlur |-> FALSE,
   pc |-> [s \in Chains |-> "idle"], cancelled |-> [s \in Chains |-> FALSE],
   timeoutAborted |-> [s \in Chains |-> FALSE],
   link |-> [s \in Chains |-> Null], triggered |-> [s \in Chains |-> FALSE],
   notified |-> [s \in Chains |-> <<>>],
   retried |-> [s \in Chains |-> FALSE], attempts |-> [s \in Chains |-> <<>>],
   ret |-> [s \in Chains |-> "pending"],
   calls |-> [s \in Chains |-> 0], endKind |-> [s \in Chains |-> "none"],
   seen |-> [s \in Chains |-> {}], log |-> [s \in Chains |-> <<>>],
   hooks |-> [s \in Chains |-> [interceptor |-> 0, observers |-> 0]],
   onFetchErrorResult |-> [s \in Chains |-> "none"],
   abortedInFlight |-> FALSE,
   source |-> [url |-> 1, watched |-> 1, queued |-> FALSE],
   current |-> InitialConfig, request |-> [s \in Chains |-> NoRequest]]

\* the program is in the state the record S describes (histories as recorded
\* without audit: empty)
InState(S) ==
  LET F == Constructed(TRUE, FALSE)
  IN  /\ online = S.online /\ hidden = S.hidden /\ mounted = S.mounted
      /\ data = S.data /\ error = S.error /\ loading = S.loading
      /\ isFinished = S.isFinished /\ statusCode = S.statusCode
      /\ canAbort = S.canAbort /\ aborted = S.aborted
      /\ cancelTokenSource = S.cancelTokenSource
      /\ currentRetryCount = S.currentRetryCount
      /\ retryTimer = S.retryTimer
      /\ wasOfflineDuringRequest = S.wasOfflineDuringRequest
      /\ isVisible = S.isVisible
      /\ wasCancelledDueToBlur = S.wasCancelledDueToBlur
      /\ pc = S.pc /\ cancelled = S.cancelled
      /\ timeoutAborted = S.timeoutAborted /\ link = S.link /\ triggered = S.triggered
      /\ notified = S.notified
      /\ abortedInFlight = S.abortedInFlight
      /\ source = S.source
      /\ current = S.current
      /\ retried = F.retried /\ attempts = F.attempts /\ ret = F.ret /\ calls = F.calls
      /\ endKind = F.endKind /\ seen = F.seen /\ log = F.log /\ hooks = F.hooks
      /\ onFetchErrorResult = F.onFetchErrorResult
      /\ request = F.request

\* ------------------------------------------------- execute(): building blocks
\* the stages at which an attempt is suspended with its signal still in use
Suspended == {"beforeFetch", "transport", "decode"}

\* the invocation of chain s starts a stage and suspends in it
Enter(S, s, stage) == [S EXCEPT !.pc[s] = stage, !.log[s] = Append(@, stage)]

\* Settled without `loading.value = false`
Settled_KeepsLoading(S) == [S EXCEPT !.isFinished = TRUE, !.canAbort = FALSE]

\* isFinished.value = true; loading.value = false; canAbort.value = false
Settled(S) == [S EXCEPT !.isFinished = TRUE, !.loading = FALSE, !.canAbort = FALSE]

\* `return { data, error }` of the invocation of chain s.  The promise the
\* caller holds is the one of the first invocation: if the chain went through
\* the retry branch, that invocation returns `error: undefined` (after
\* `await execute(true)`), or has returned already (setTimeout).
Return(S, s, value, kind) ==
  [S EXCEPT !.pc[s] = "done",
            !.endKind[s] = kind,
            !.link[s] = Null, !.timeoutAborted[s] = FALSE,
            !.ret[s] = IF @ # "pending" THEN @
                       ELSE IF S.retried[s] THEN "undef" ELSE value]

\* an error observer threw: the exception leaves the catch block of execute()
Throw(S, s) ==
  [S EXCEPT !.pc[s] = "done",
            !.endKind[s] = "threw",
            !.link[s] = Null, !.timeoutAborted[s] = FALSE,
            !.ret[s] = IF @ = "pending" THEN "rejected" ELSE @]

\* const response = await axios.request(config) / await fetch(url, config)
CallTransport(S, s) ==
  [Enter(S, s, "transport") EXCEPT !.calls[s] = @ + 1]

\* error.value = undefined ... canAbort.value = true; cancelTokenSource = source()
\* (useFetch: abortController = new AbortController(): the timeout controllers
\* wired to the previous controller of the chain stay wired to that one)
ResetState(S, s) ==
  [S EXCEPT !.error = NoError, !.aborted = FALSE, !.loading = TRUE,
            !.isFinished = FALSE, !.canAbort = TRUE,
            !.cancelTokenSource = s, !.cancelled[s] = FALSE,
            !.timeoutAborted[s] = FALSE,
            !.link = [x \in Chains |-> IF S.link[x] = s THEN Null ELSE S.link[x]],
            !.triggered[s] = FALSE,
            !.notified[s] = <<>>,
            !.log[s] = <<>>]

\* has the signal the transport call of chain s is given been aborted:
\* config.cancelToken / fetchConfig.signal of the attempt, or, for useFetch with
\* a timeout, the signal of the timeout controller
SignalAborted(S, s) ==
  IF cfg.transport = "fetch" /\ cfg.timeout
    THEN S.timeoutAborted[s]
    ELSE S.cancelled[s]

\* if (aborted.value) return; [timeout controller, wired to abortController];
\* await axios.request / fetch.  A call given an aborted signal only rejects.
IssueCall(S, s) ==
  IF S.aborted
    THEN Return(S, s, "undef", "skipped")
    ELSE LET S1 == IF cfg.transport = "fetch" /\ cfg.timeout
                     THEN [S EXCEPT !.link[s] = S.cancelTokenSource,
                                    !.timeoutAborted[s] = FALSE]
                     ELSE S
         IN  IF SignalAborted(S1, s)
               THEN [CallTransport(S1, s) EXCEPT !.pc[s] = "rejecting"]
               ELSE CallTransport(S1, s)

\* axios has no 'form' and 'document' response types: blob and text are asked for
ActualResponseType(responseType) ==
  CASE responseType = "form"     -> "blob"
    [] responseType = "document" -> "text"
    [] OTHER                     -> responseType

\* the request built from the configuration captured at construction
BuildRequest_FromOptions(cur) ==
  [method |-> InitialConfig.method,
   body |-> [kind |-> "none", of |-> InitialConfig.data],
   responseType |-> IF cfg.transport = "axios"
                      THEN ActualResponseType(InitialConfig.responseType) ELSE "none",
   parsedAs |-> "none"]

\* axiosConfig / fetchConfig of an attempt, built from the stored configuration:
\* axios is given method, data (a FormData when the response type is 'form') and
\* the response type; fetch is given the method and, for POST, PUT and PATCH, a
\* body (FormData, or the JSON text of the data)
BuildRequest(cur) ==
  IF cfg.transport = "axios"
    THEN [method |-> cur.method,
          body |-> IF cur.data = NoPayload THEN [kind |-> "none", of |-> NoPayload]
                   ELSE IF cur.responseType = "form" THEN [kind |-> "FormData", of |-> cur.data]
                   ELSE [kind |-> "data", of |-> cur.data],
          responseType |-> ActualResponseType(cur.responseType),
          parsedAs |-> "none"]
    ELSE [method |-> cur.method,
          body |-> IF cur.data = NoPayload \/ cur.method \notin {"POST", "PUT", "PATCH"}
                     THEN [kind |-> "none", of |-> NoPayload]
                   ELSE IF cur.responseType = "form" THEN [kind |-> "FormData", of |-> cur.data]
                   ELSE [kind |-> "JSON", of |-> cur.data],
          responseType |-> "none",
          parsedAs |-> "none"]

\* The synchronous prefix of execute(isRetry), up to its first suspension.
ExecuteBody(S0, s, isRetry) ==
  LET S1 == ResetState([S0 EXCEPT !.currentRetryCount = IF isRetry THEN @ ELSE 0], s)
      S2 == IF ~S0.online
              THEN [S1 EXCEPT !.wasOfflineDuringRequest = TRUE]
              ELSE [S1 EXCEPT !.wasOfflineDuringRequest = IF isRetry THEN @ ELSE FALSE]
      S3 == IF S0.hidden
              THEN [S2 EXCEPT !.isVisible = FALSE]
              ELSE [S2 EXCEPT !.isVisible = TRUE,
                              !.wasCancelledDueToBlur = IF isRetry THEN @ ELSE FALSE]
      S4 == [S3 EXCEPT !.request[s] = BuildRequest(S3.current)]
  IN  IF ~S0.online /\ cfg.refetchOnReconnect
        THEN Return(Settled(S2), s, "undef", "offline")
      ELSE IF S0.hidden /\ cfg.cancelOnBlur
        THEN Return(Settled([S3 EXCEPT !.aborted = TRUE,
                                       !.wasCancelledDueToBlur = TRUE]),
                    s, "undef", "hidden")
      ELSE IF cfg.hasBeforeFetch
        THEN Enter(S4, s, "beforeFetch")
      ELSE IssueCall(S4, s)

\* getRetryDelay(retryDelay, attempt) for a numeric retryDelay
getRetryDelay(retryDelay, attempt) == retryDelay

\* axios.isCancel(err)  /  err?.name === 'AbortError' || err?.code === 'ERR_ABORTED'
IsCancelError(e) ==
  IF cfg.transport = "axios"
    THEN e.cancel
    ELSE e.name = "AbortError" \/ e.code = "ERR_ABORTED"

\* the end of the catch block: isFinished, loading, canAbort; return { data, error }
FinishFailure(S, s) ==
  Return(Settled(S), s, IF S.error = NoError THEN "undef" ELSE "err", "fail")

\* for (const callback of errorCallbacks) await callback(err)
ErrorObservers(S, s) ==
  IF cfg.hasObservers
    THEN [Enter(S, s, "errorObservers") EXCEPT !.hooks[s].observers = @ + 1]
    ELSE FinishFailure(S, s)

\* the retry branch publishing the failure of the attempt before it retries
RetryBranch_SetsError(S, s) ==
  LET S1 == [S EXCEPT !.currentRetryCount = @ + 1, !.retried[s] = TRUE,
                      !.error = "network", !.loading = FALSE]
      delay == getRetryDelay(cfg.retryDelay, S1.currentRetryCount)
  IN  IF delay > 0
        THEN [S1 EXCEPT !.retryTimer = s, !.pc[s] = "timer",
                        !.link[s] = Null, !.timeoutAborted[s] = FALSE,
                        !.ret[s] = IF @ = "pending" THEN "undef" ELSE @]
        ELSE ExecuteBody(S1, s, TRUE)

\* the retry branch invoking onFetchError and the error observers for the
\* failed attempt before it retries
RetryBranch_NotifiesError(S, s) ==
  LET S1 == [S EXCEPT !.currentRetryCount = @ + 1, !.retried[s] = TRUE,
                      !.hooks[s].interceptor = @ + 1, !.hooks[s].observers = @ + 1]
      delay == getRetryDelay(cfg.retryDelay, S1.currentRetryCount)
  IN  IF delay > 0
        THEN [S1 EXCEPT !.retryTimer = s, !.pc[s] = "timer",
                        !.link[s] = Null, !.timeoutAborted[s] = FALSE,
                        !.ret[s] = IF @ = "pending" THEN "undef" ELSE @]
        ELSE ExecuteBody(S1, s, TRUE)

\* if (willRetry) { currentRetryCount++ ; setTimeout(...) or await execute(true) ; return }
RetryBranch(S, s) ==
  LET S0 == [S EXCEPT !.currentRetryCount = @ + 1, !.retried[s] = TRUE]
      S1 == [S0 EXCEPT !.attempts[s] = Append(@, S0.currentRetryCount)]
      delay == getRetryDelay(cfg.retryDelay, S1.currentRetryCount)
  IN  IF delay > 0
        THEN [S1 EXCEPT !.retryTimer = s, !.pc[s] = "timer",
                        !.link[s] = Null, !.timeoutAborted[s] = FALSE,
                        !.ret[s] = IF @ = "pending" THEN "undef" ELSE @]
        ELSE ExecuteBody(S1, s, TRUE)

\* error.value = errorObj; statusCode.value = response?.status ?? null; onFetchError ...
TerminalFailure(S, s, e) ==
  LET S1 == [S EXCEPT !.error = e.id, !.statusCode = e.status]
  IN  IF cfg.hasOnFetchError
        THEN [Enter(S1, s, "onFetchError") EXCEPT !.hooks[s].interceptor = @ + 1]
        ELSE ErrorObservers(S1, s)

\* the catch block without its cancellation check
Catch_NoCancelCheck(S, s, e) ==
  IF shouldRetry(e, cfg.retry, S.currentRetryCount, cfg.retryCount, FALSE)
    THEN RetryBranch(S, s)
    ELSE TerminalFailure(S, s, e)

\* the catch block of execute()
Catch(S, s, e) ==
  IF IsCancelError(e)
    THEN Return(Settled([S EXCEPT !.aborted = TRUE]), s, "undef", "cancel")
  ELSE IF shouldRetry(e, cfg.retry, S.currentRetryCount, cfg.retryCount, IsCancelError(e))
    THEN RetryBranch(S, s)
  ELSE TerminalFailure(S, s, e)

\* isFinished, loading, canAbort; return { data, error: undefined }
FinishSuccess(S, s) == Return(Settled(S), s, "undef", "success")

\* await callback(response): the next callback of responseCallbacks is called
\* with the response object of the attempt, whose data is the payload the
\* transport delivered (axios: response; useFetch: fetchResponse, built before
\* afterFetch runs)
NotifyNext(S, s) ==
  [S EXCEPT !.notified[s] = Append(@, [callback |-> Len(@) + 1, payload |-> s])]

\* the response observers started after the request was already marked finished
ResponseObservers_FinishesFirst(S, s) ==
  IF cfg.hasObservers
    THEN NotifyNext(Enter(Settled(S), s, "observers"), s)
    ELSE FinishSuccess(S, s)

\* for (const callback of responseCallbacks) await callback(response)
ResponseObservers(S, s) ==
  IF cfg.hasObservers
    THEN NotifyNext(Enter(S, s, "observers"), s)
    ELSE FinishSuccess(S, s)

\* data.value = responseData, then the response observers
WriteData(S, s, payload) == ResponseObservers([S EXCEPT !.data = payload], s)

\* the payload afterFetch returns in place of the decoded payload of chain s
Replaced(s) == s + MaxChains

\* the data onFetchError returns for the failure of chain s
OnErrorData(s) == s + 2 * MaxChains

\* the afterFetch interceptor, if configured
AfterDecode(S, s) ==
  IF cfg.hasAfterFetch THEN Enter(S, s, "afterFetch") ELSE WriteData(S, s, s)

\* the try block after the transport call resolved with a 2xx response
\* (useFetch: `await parseResponse(response, responseType)` suspends)
OnResponse(S, s) ==
  IF S.aborted
    THEN Return(S, s, "undef", "skipped")
    ELSE LET S1 == [S EXCEPT !.statusCode = 200]
         IN  IF cfg.transport = "fetch"
               THEN Enter(S1, s, "decode")
               ELSE AfterDecode(S1, s)

\* the transport call of chain s settled with error e (for useFetch a non-2xx
\* response is a resolved fetch: `if (aborted.value) return` comes before the
\* error is synthesized and thrown)
OnRejection(S, s, e) ==
  IF cfg.transport = "fetch" /\ e.hasResponse /\ S.aborted
    THEN Return(S, s, "undef", "skipped")
    ELSE Catch(S, s, e)

\* cancelTokenSource?.cancel() / abortController?.abort(): the token of the
\* attempt that created it, and (useFetch) every timeout controller wired to it
CancelSignal(S) ==
  LET c == S.cancelTokenSource
  IN  IF c = Null
        THEN S
        ELSE [S EXCEPT !.cancelled[c] = (S.pc[c] \in Suspended) \/ @,
                       !.timeoutAborted =
                          [x \in Chains |->
                             \/ S.timeoutAborted[x]
                             \/ (S.link[x] = c /\ S.pc[x] \in {"transport", "decode"})]]

\* abort()
Abort(S) ==
  LET c  == S.cancelTokenSource
      S1 == IF c # Null
              THEN [CancelSignal(S) EXCEPT
                             !.abortedInFlight = (S.pc[c] = "transport") \/ @,
                             !.cancelTokenSource = Null,
                             !.aborted = TRUE, !.canAbort = FALSE,
                             !.loading = FALSE, !.isFinished = TRUE]
              ELSE S
      t  == S1.retryTimer
      S2 == IF t # Null
              THEN [S1 EXCEPT !.retryTimer = Null,
                              !.pc[t] = IF @ = "timer" THEN "done" ELSE @,
                              !.endKind[t] = IF S1.pc[t] = "timer" THEN "cleared" ELSE @]
              ELSE S1
  IN  [S2 EXCEPT !.currentRetryCount = 0]

\* ---------------------------------------------------------------- handlers
HasIdle(S) == \E s \in Chains : S.pc[s] = "idle"

NextChain(S) == CHOOSE s \in Chains : S.pc[s] = "idle" /\ \A t \in 1..(s - 1) : S.pc[t] # "idle"

\* execute() called by the caller or by a handler: a new chain
ExecuteNew(S) == ExecuteBody([S EXCEPT !.abortedInFlight = FALSE], NextChain(S), FALSE)

handleOnline(S) ==
  IF cfg.refetchOnReconnect /\ S.wasOfflineDuringRequest /\ ~S.loading
    THEN ExecuteNew([S EXCEPT !.wasOfflineDuringRequest = FALSE])
    ELSE S

handleOffline(S) ==
  LET S1 == [S EXCEPT !.wasOfflineDuringRequest = TRUE]
  IN  IF S1.cancelTokenSource # Null /\ S1.canAbort THEN Abort(S1) ELSE S1

\* handleVisibilityChange marking resumption owed on every transition to
\* hidden with cancelOnBlur, cancelled attempt or not
handleVisibilityChange_MarksAlways(S) ==
  LET wasVisible == S.isVisible
      S1 == [S EXCEPT !.isVisible = ~S.hidden]
      S2 == IF wasVisible /\ ~S1.isVisible /\ cfg.cancelOnBlur
              THEN [(IF S1.cancelTokenSource # Null /\ S1.canAbort THEN Abort(S1) ELSE S1)
                      EXCEPT !.wasCancelledDueToBlur = TRUE]
              ELSE S1
  IN  IF ~wasVisible /\ S2.isVisible
           /\ (cfg.refetchOnFocus \/ S2.wasCancelledDueToBlur) /\ ~S2.loading
        THEN ExecuteNew([S2 EXCEPT !.wasCancelledDueToBlur = FALSE])
        ELSE S2

handleVisibilityChange(S) ==
  LET wasVisible == S.isVisible
      S1 == [S EXCEPT !.isVisible = ~S.hidden]
      S2 == IF wasVisible /\ ~S1.isVisible /\ cfg.cancelOnBlur
                 /\ S1.cancelTokenSource # Null /\ S1.canAbort
              THEN [Abort(S1) EXCEPT !.wasCancelledDueToBlur = TRUE]
              ELSE S1
  IN  IF ~wasVisible /\ S2.isVisible
           /\ (cfg.refetchOnFocus \/ S2.wasCancelledDueToBlur) /\ ~S2.loading
        THEN ExecuteNew([S2 EXCEPT !.wasCancelledDueToBlur = FALSE])
        ELSE S2

\* does the handler, run on S, call execute()
OnlineExecutes(S) == cfg.refetchOnReconnect /\ S.wasOfflineDuringRequest /\ ~S.loading

ShowExecutes(S) ==
  ~S.isVisible /\ (cfg.refetchOnFocus \/ S.wasCancelledDueToBlur) /\ ~S.loading

onUnmounted(S) ==
  LET S1 == [S EXCEPT !.mounted = "unmounted",
                      !.retryTimer = Null,
                      !.pc = [s \in Chains |->
                                IF s = S.retryTimer /\ S.pc[s] = "timer" THEN "done" ELSE S.pc[s]],
                      !.endKind = [s \in Chains |->
                                IF s = S.retryTimer /\ S.pc[s] = "timer" THEN "cleared"
                                ELSE S.endKind[s]]]
  IN  IF S1.cancelTokenSource # Null /\ S1.canAbort THEN Abort(S1) ELSE S1

\* the listeners onMounted attaches, while attached
NetListener == mounted = "mounted" /\ cfg.refetchOnReconnect
VisListener == mounted = "mounted" /\ (cfg.refetchOnFocus \/ cfg.cancelOnBlur)

\* ----------------------------------------------------------------- actions
\* the errors the transport call of chain s can settle with
Rejections(s) ==
  IF cfg.transport = "axios"
    THEN {AxiosHttpError(st) : st \in ErrorStatuses}
           \cup {AxiosNetworkError}
           \cup (IF cfg.timeout THEN {AxiosTimeoutError} ELSE {})
           \cup (IF SignalAborted(Cur, s) THEN {AxiosCancel} ELSE {})
    ELSE {FetchHttpError(st, StatusText(st)) : st \in ErrorStatuses}
           \cup {FetchHttpError(st, <<>>) : st \in ErrorStatuses}
           \cup {FetchNetworkError}
           \cup (IF cfg.timeout THEN {FetchTimeoutAbort} ELSE {})
           \cup (IF SignalAborted(Cur, s) THEN {FetchAbortError} ELSE {})

\* the rejection of a call that was given an aborted signal
CancelRejection == IF cfg.transport = "axios" THEN AxiosCancel ELSE FetchAbortError

\* the caller invokes execute()
Execute ==
  /\ HasIdle(Cur)
  /\ Commit(ExecuteNew(Cur))

\* the payload a caller passes to post / put / patch
Payloads == {"a"}

FluentCalls ==
  {"get", "post", "put", "delete", "patch",
   "json", "text", "blob", "arraybuffer", "document", "form"}

\* get / post / put / delete / patch / json / text / blob / arraybuffer /
\* document / form of chainReturn, applied to the stored configuration
Fluent(cur, call, payload) ==
  CASE call = "get"    -> [cur EXCEPT !.method = "GET"]
    [] call = "delete" -> [cur EXCEPT !.method = "DELETE"]
    [] call = "post"   -> [cur EXCEPT !.method = "POST",
                                      !.data = IF payload # NoPayload THEN payload ELSE @]
    [] call = "put"    -> [cur EXCEPT !.method = "PUT",
                                      !.data = IF payload # NoPayload THEN payload ELSE @]
    [] call = "patch"  -> [cur EXCEPT !.method = "PATCH",
                                      !.data = IF payload # NoPayload THEN payload ELSE @]
    [] OTHER           -> [cur EXCEPT !.responseType = call]

\* the caller makes a fluent call on the facade
FluentCall ==
  \E call \in FluentCalls, payload \in Payloads \cup {NoPayload} :
    /\ (call \notin {"post", "put", "patch"}) => payload = NoPayload
    /\ Commit([Cur EXCEPT !.current = Fluent(@, call, payload)])

\* the caller invokes abort()
CallerAbort ==
  /\ Commit(Abort(Cur))

\* the transport call of chain s resolves with a 2xx response
TransportResolve(s) ==
  /\ pc[s] = "transport"
  /\ Commit(OnResponse([Cur EXCEPT !.seen[s] = @ \cup {"ok"},
                                   !.request[s].parsedAs = current.responseType], s))

\* the transport call of chain s fails (or, for useFetch, answers non-2xx)
TransportReject(s) ==
  /\ pc[s] = "transport"
  /\ \E e \in Rejections(s) :
       Commit(OnRejection([Cur EXCEPT !.seen[s] = @ \cup {e.id}], s, e))

\* the transport call of chain s fails with a network error
NetworkFailure(s) ==
  /\ pc[s] = "transport"
  /\ LET e == IF cfg.transport = "axios" THEN AxiosNetworkError ELSE FetchNetworkError
     IN  Commit(OnRejection([Cur EXCEPT !.seen[s] = @ \cup {e.id}], s, e))

\* the transport call of chain s, issued with an aborted signal, rejects
CancelledCallRejects(s) ==
  /\ pc[s] = "rejecting"
  /\ Commit(Catch([Cur EXCEPT !.seen[s] = @ \cup {CancelRejection.id}], s, CancelRejection))

\* beforeFetch of chain s settles: it returns (a rewritten request or nothing),
\* it has invoked cancel() and returns, or it throws
BeforeFetchSettle(s) ==
  /\ pc[s] = "beforeFetch"
  /\ \E r \in {"nothing", "cancel", "throw"} :
       Commit(CASE r = "nothing" -> IssueCall(Cur, s)
                [] r = "cancel"  -> IssueCall([CancelSignal(Cur) EXCEPT !.triggered[s] = TRUE], s)
                [] r = "throw"   -> Catch(Cur, s, InterceptorError))

\* useFetch: parseResponse of chain s settles: the body was read, or reading it
\* was aborted through the signal (abort(), or the timeout timer, which is
\* never cleared)
DecodeSettle(s) ==
  /\ pc[s] = "decode"
  /\ \/ Commit(AfterDecode(Cur, s))
     \/ /\ SignalAborted(Cur, s)
        /\ Commit(Catch([Cur EXCEPT !.seen[s] = @ \cup {"cancel"}], s, FetchAbortError))
     \/ /\ cfg.timeout
        /\ Commit(Catch([Cur EXCEPT !.seen[s] = @ \cup {"timeout"}], s, FetchTimeoutAbort))

\* afterFetch of chain s settles: it returns nothing, returns a replacement
\* payload, or returns / throws an Error
AfterFetchSettle(s) ==
  /\ pc[s] = "afterFetch"
  /\ \E r \in {"nothing", "replace", "error"} :
       Commit(CASE r = "nothing" -> WriteData(Cur, s, s)
                [] r = "replace" -> WriteData(Cur, s, Replaced(s))
                [] r = "error"   -> Catch(Cur, s, InterceptorError))

\* the response observer of chain s settles: it returns or throws
ObserversSettle(s) ==
  /\ pc[s] = "observers"
  /\ \E r \in {"ok", "throw"} :
       Commit(IF r = "throw" THEN Catch(Cur, s, InterceptorError)
              ELSE IF Len(notified[s]) < cfg.responseCallbacks THEN NotifyNext(Cur, s)
              ELSE FinishSuccess(Cur, s))

\* the results of onFetchError: it returns nothing, returns { error },
\* { data }, or { error, data }, or throws
OnFetchErrorResults == {"nothing", "replace", "data", "both", "throw"}

\* if (onFetchErrorResult.error) error.value = ...;
\* if (updateDataOnError && onFetchErrorResult.data !== undefined) data.value = ...
ApplyOnFetchError(S, s, r) ==
  [S EXCEPT !.error = IF r \in {"replace", "both"} THEN "replaced" ELSE @,
            !.data = IF cfg.updateDataOnError /\ r \in {"data", "both"}
                       THEN OnErrorData(s) ELSE @,
            !.onFetchErrorResult[s] = r]

\* the onFetchError interceptor of chain s settles
OnFetchErrorSettle(s) ==
  /\ pc[s] = "onFetchError"
  /\ \E r \in OnFetchErrorResults :
       Commit(ErrorObservers(ApplyOnFetchError(Cur, s, r), s))

\* the error observer of chain s settles: it returns or throws
ErrorObserversSettle(s) ==
  /\ pc[s] = "errorObservers"
  /\ \E r \in {"ok", "throw"} :
       Commit(IF r = "ok" THEN FinishFailure(Cur, s) ELSE Throw(Cur, s))

\* the retry timer of chain s fires: execute(true)
TimerFire(s) ==
  /\ pc[s] = "timer"
  /\ Commit(ExecuteBody(Cur, s, TRUE))

Mount ==
  /\ mounted = "setup"
  /\ Commit([Cur EXCEPT !.mounted = "mounted"])

Unmount ==
  /\ mounted = "mounted"
  /\ Commit(onUnmounted(Cur))

NetOffline ==
  /\ online
  /\ LET S == [Cur EXCEPT !.online = FALSE]
     IN  Commit(IF NetListener THEN handleOffline(S) ELSE S)

NetOnline ==
  /\ ~online
  /\ LET S == [Cur EXCEPT !.online = TRUE]
     IN  /\ (NetListener /\ OnlineExecutes(S)) => HasIdle(S)
         /\ Commit(IF NetListener THEN handleOnline(S) ELSE S)

VisHide ==
  /\ ~hidden
  /\ LET S == [Cur EXCEPT !.hidden = TRUE]
     IN  Commit(IF VisListener THEN handleVisibilityChange(S) ELSE S)

VisShow ==
  /\ hidden
  /\ LET S == [Cur EXCEPT !.hidden = FALSE]
     IN  /\ (VisListener /\ ShowExecutes(S)) => HasIdle(S)
         /\ Commit(IF VisListener THEN handleVisibilityChange(S) ELSE S)

\* ------------------------------------------------------- the url watcher
Urls == 1..MaxUrls

\* the caller assigns another value to the reactive url; with refetch the
\* watcher registered on it is scheduled (once, until it has run)
UrlChange ==
  /\ \E u \in Urls \ {source.url} :
       Commit([Cur EXCEPT !.source = [@ EXCEPT !.url = u,
                                               !.queued = @ \/ cfg.refetch]])

\* does the scheduled watcher call execute(): watch() invokes the callback
\* when the value of the getter differs from the one it saw last, and the
\* callback is `() => { if (immediate) execute() }`
WatcherExecutes(S) == S.source.url # S.source.watched /\ cfg.immediate

\* the scheduled watcher job
watchUrl(S) ==
  LET S1 == [S EXCEPT !.source = [@ EXCEPT !.watched = S.source.url, !.queued = FALSE]]
  IN  IF WatcherExecutes(S) THEN ExecuteNew(S1) ELSE S1

\* the scheduler runs the watcher job
WatcherFlush ==
  /\ source.queued
  /\ WatcherExecutes(Cur) => HasIdle(Cur)
  /\ Commit(watchUrl(Cur))

\* ------------------------------- useFetch: AbortController and timeout wiring
\* One attempt = one invocation of execute().  Attempt a creates the object
\* PrimaryOf(a) (`new AbortController()`) and, when it issues its call, the
\* object TimeoutOf(a) (createTimeoutController).
Attempts == 1..MaxAttempts
PrimaryOf(a) == 2 * a - 1
TimeoutOf(a) == 2 * a
Objects == 1..(2 * MaxAttempts)

\* A function value is <<kind, n>>: the platform's abort of object n
\* ("native"), the arrow function assigned to abortController.abort by
\* attempt n ("primary"), or the one assigned to timeoutController.abort
\* ("timeout").  <<"property", n>> is the call expression `n.abort()`, which
\* reads the property when it is evaluated.
NativeAbort(o) == <<"native", o>>
PropertyCall(o) == <<"property", o>>

NoFunction == <<"none", 0>>

NoControllers ==
  [abortController |-> Null,
   flag |-> FALSE,
   signalAborted |-> [o \in Objects |-> FALSE],
   events |-> [o \in Objects |-> 0],
   abort |-> [o \in Objects |-> NativeAbort(o)],
   originalAbort |-> [a \in Attempts |-> NoFunction],
   timeoutAbort |-> [a \in Attempts |-> NoFunction],
   target |-> [a \in Attempts |-> Null],
   timers |-> <<>>,
   stage |-> [a \in Attempts |-> "idle"],
   diverged |-> FALSE]

\* abortController.abort = () => { originalAbort(); timeoutController?.abort() }
PrimaryOverride(W, a) == <<W.originalAbort[a], PropertyCall(TimeoutOf(a))>>

\* a wiring in which the timeout side calls abortController.abort() itself
TimeoutOverride_CallsProperty(W, a) == <<W.timeoutAbort[a], PropertyCall(W.target[a])>>

\* timeoutController.abort = () => { timeoutAbort(); originalAbort() }
TimeoutOverride(W, a) == <<W.timeoutAbort[a], W.originalAbort[a]>>

\* the depth of calls after which an evaluation counts as not terminating
CallDepth == 4 * MaxAttempts + 4

RECURSIVE Invoke(_, _, _)
RECURSIVE InvokeAll(_, _, _)

\* AbortController.prototype.abort: the first call marks the signal aborted
\* and dispatches its abort event, later calls do nothing
Invoke(W, f, depth) ==
  IF depth = 0 THEN [W EXCEPT !.diverged = TRUE]
  ELSE IF f[1] = "native"
    THEN IF W.signalAborted[f[2]] THEN W
         ELSE [W EXCEPT !.signalAborted[f[2]] = TRUE, !.events[f[2]] = @ + 1]
  ELSE IF f[1] = "property" THEN Invoke(W, W.abort[f[2]], depth - 1)
  ELSE IF f[1] = "primary" THEN InvokeAll(W, PrimaryOverride(W, f[2]), depth - 1)
  ELSE IF f[1] = "timeout" THEN InvokeAll(W, TimeoutOverride(W, f[2]), depth - 1)
  ELSE W

InvokeAll(W, fs, depth) ==
  IF fs = <<>> \/ W.diverged THEN W
  ELSE InvokeAll(Invoke(W, Head(fs), depth), Tail(fs), depth)

Call(W, f) == Invoke(W, f, CallDepth)

\* execute(), from the check of aborted after beforeFetch to the fetch() call
LinkTimeout(W, a) ==
  IF W.flag THEN [W EXCEPT !.stage[a] = "ended"]
  ELSE LET o  == W.abortController
           W1 == [W EXCEPT !.timers = Append(@, a),
                           !.originalAbort[a] = W.abort[o],
                           !.timeoutAbort[a] = W.abort[TimeoutOf(a)],
                           !.target[a] = o]
       IN  [W1 EXCEPT !.abort[o] = <<"primary", a>>,
                      !.abort[TimeoutOf(a)] = <<"timeout", a>>,
                      !.stage[a] = "fetch"]

\* execute() up to its first suspension
WireExecute ==
  /\ \E a \in Attempts :
       /\ controllers.stage[a] = "idle"
       /\ \A b \in 1..(a - 1) : controllers.stage[b] # "idle"
       /\ LET W == [controllers EXCEPT !.flag = FALSE,
                                       !.abortController = PrimaryOf(a),
                                       !.stage[a] = "beforeFetch"]
          IN  controllers' = IF cfg.hasBeforeFetch THEN W ELSE LinkTimeout(W, a)

\* beforeFetch settles, having called the cancel() it was given or not
WireBeforeFetch(a) ==
  /\ controllers.stage[a] = "beforeFetch"
  /\ \E cancel \in BOOLEAN :
       LET W == IF cancel /\ controllers.abortController # Null
                  THEN Call(controllers, PropertyCall(controllers.abortController))
                  ELSE controllers
       IN  controllers' = LinkTimeout(W, a)

\* the fetch() promise of attempt a settles
WireFetchSettle(a) ==
  /\ controllers.stage[a] = "fetch"
  /\ controllers' = [controllers EXCEPT !.stage[a] = "ended"]

\* the oldest pending setTimeout callback of createTimeoutController runs
\* (all have the same delay): controller.abort()
WireTimeout ==
  /\ controllers.timers # <<>>
  /\ LET a == Head(controllers.timers)
     IN  controllers' = [Call(controllers, PropertyCall(TimeoutOf(a)))
                           EXCEPT !.timers = Tail(controllers.timers)]

\* abort()
WireAbort ==
  /\ controllers.abortController # Null
  /\ controllers' = [Call(controllers, PropertyCall(controllers.abortController))
                       EXCEPT !.abortController = Null, !.flag = TRUE]

\* --------------------------------------------------------- specifications
RetryPolicies(maxCount) ==
  [retry : BOOLEAN, retryCount : 0..maxCount, retryDelay : {0, 10}]

MkConfig(transport, policy, reconnect, focus, blur, onErr) ==
  [transport |-> transport,
   retry |-> policy.retry, retryCount |-> policy.retryCount, retryDelay |-> policy.retryDelay,
   refetchOnReconnect |-> reconnect, refetchOnFocus |-> focus, cancelOnBlur |-> blur,
   hasOnFetchError |-> onErr,
   hasBeforeFetch |-> FALSE, hasAfterFetch |-> FALSE, hasObservers |-> FALSE,
   responseCallbacks |-> MaxCallbacks,
   updateDataOnError |-> FALSE,
   immediate |-> FALSE, refetch |-> FALSE,
   timeout |-> TRUE]

\* options with beforeFetch / afterFetch, observers registered through
\* onFetchResponse / onFetchError, and with or without a timeout
WithStages(config, before, after, observers, timeout) ==
  [config EXCEPT !.hasBeforeFetch = before, !.hasAfterFetch = after,
                 !.hasObservers = observers, !.timeout = timeout]

\* the state after useAxiosFetch(url, options) / useFetch(url, options) with
\* immediate: false, before onMounted
InitFacade ==
  /\ mounted = "setup"
  /\ data = NoData /\ error = NoError /\ loading = FALSE /\ isFinished = FALSE
  /\ statusCode = NoStatus /\ canAbort = FALSE /\ aborted = FALSE
  /\ cancelTokenSource = Null /\ currentRetryCount = 0 /\ retryTimer = Null
  /\ wasOfflineDuringRequest = FALSE
  /\ isVisible = ~hidden
  /\ wasCancelledDueToBlur = FALSE
  /\ pc = [s \in Chains |-> "idle"]
  /\ cancelled = [s \in Chains |-> FALSE]
  /\ timeoutAborted = [s \in Chains |-> FALSE]
  /\ link = [s \in Chains |-> Null]
  /\ triggered = [s \in Chains |-> FALSE]
  /\ notified = [s \in Chains |-> <<>>]
  /\ log = [s \in Chains |-> <<>>]
  /\ hooks = [s \in Chains |-> [interceptor |-> 0, observers |-> 0]]
  /\ onFetchErrorResult = [s \in Chains |-> "none"]
  /\ retried = [s \in Chains |-> FALSE]
  /\ attempts = [s \in Chains |-> <<>>]
  /\ current = InitialConfig
  /\ request = [s \in Chains |-> NoRequest]
  /\ pair = NoPair
  /\ NoDefaults
  /\ ret = [s \in Chains |-> "pending"]
  /\ calls = [s \in Chains |-> 0]
  /\ endKind = [s \in Chains |-> "none"]
  /\ seen = [s \in Chains |-> {}]
  /\ abortedInFlight = FALSE
  /\ controllers = NoControllers
  /\ source = [url |-> 1, watched |-> 1, queued |-> FALSE]

\* Spec: overlapping executions, retries and abort() of one facade; the network
\* and visibility state does not change during a behaviour.
\* The environment is one of: online and visible; offline with
\* refetchOnReconnect; hidden with cancelOnBlur.
Init ==
  /\ \E env \in {"normal", "offline", "hidden"} :
       /\ online = (env # "offline")
       /\ hidden = (env = "hidden")
       /\ \E t \in {"axios", "fetch"}, p \in RetryPolicies(MaxOverlapRetry), h \in BOOLEAN :
            cfg = MkConfig(t, p, env = "offline", FALSE, env = "hidden", h)
  /\ audit = FALSE
  /\ InitFacade

Next ==
  \/ Execute
  \/ CallerAbort
  \/ \E s \in Chains : TransportResolve(s)
  \/ \E s \in Chains : TransportReject(s)
  \/ \E s \in Chains : DecodeSettle(s)
  \/ \E s \in Chains : OnFetchErrorSettle(s)
  \/ \E s \in Chains : TimerFire(s)

Spec == Init /\ [][Next]_vars

\* SpecOverlap: overlapping executions with retries of one facade, online and
\* visible, with the histories of the chains recorded.
InitOverlap ==
  /\ \E t \in {"axios", "fetch"}, p \in RetryPolicies(MaxOverlapRetry) :
       cfg = MkConfig(t, p, FALSE, FALSE, FALSE, FALSE)
  /\ online = TRUE
  /\ hidden = FALSE
  /\ audit = TRUE
  /\ InitFacade

NextOverlap ==
  \/ Execute
  \/ \E s \in Chains : TransportResolve(s)
  \/ \E s \in Chains : TransportReject(s)
  \/ \E s \in Chains : DecodeSettle(s)
  \/ \E s \in Chains : TimerFire(s)

SpecOverlap == InitOverlap /\ [][NextOverlap]_vars

\* SpecSingle: one execute() of the caller, left alone until it has settled,
\* with the history of the chain recorded.
InitSingle ==
  /\ \E t \in {"axios", "fetch"}, p \in RetryPolicies(MaxRetryCount),
        r \in BOOLEAN, b \in BOOLEAN, h \in BOOLEAN :
       cfg = MkConfig(t, p, r, FALSE, b, h)
  /\ online \in BOOLEAN
  /\ hidden \in BOOLEAN
  /\ audit = TRUE
  /\ InitFacade

ExecuteOnce ==
  /\ \A s \in Chains : pc[s] = "idle"
  /\ Execute

NextSingle ==
  \/ ExecuteOnce
  \/ \E s \in Chains : TransportResolve(s)
  \/ \E s \in Chains : TransportReject(s)
  \/ \E s \in Chains : DecodeSettle(s)
  \/ \E s \in Chains : OnFetchErrorSettle(s)
  \/ \E s \in Chains : TimerFire(s)

SpecSingle == InitSingle /\ [][NextSingle]_vars

\* SpecFluent: one execute() with its retries, online and visible, against a
\* transport that answers or fails with a network error, and the fluent calls
\* of the caller at any moment, with the histories recorded.
InitFluent ==
  /\ \E t \in {"axios", "fetch"}, d \in {0, 10} :
       cfg = MkConfig(t, [retry |-> TRUE, retryCount |-> MaxStageRetry, retryDelay |-> d],
                      FALSE, FALSE, FALSE, FALSE)
  /\ online = TRUE
  /\ hidden = FALSE
  /\ audit = TRUE
  /\ InitFacade

NextFluent ==
  \/ ExecuteOnce
  \/ FluentCall
  \/ \E s \in Chains : TransportResolve(s)
  \/ \E s \in Chains : NetworkFailure(s)
  \/ \E s \in Chains : DecodeSettle(s)
  \/ \E s \in Chains : TimerFire(s)

SpecFluent == InitFluent /\ [][NextFluent]_vars

\* SpecPair: the same execute(), with the same retry policy, run on a
\* useAxiosFetch facade against a transport whose outcomes are recorded, and
\* then on a useFetch facade against a transport that replays them.
\* the outcomes of a transport call
Outcomes == {"ok", "http404", "http408", "http500", "network", "timeout"}

StatusOf(kind) ==
  CASE kind = "http404" -> 404
    [] kind = "http408" -> 408
    [] OTHER            -> 500

\* what the transport call of the running facade settles with for an outcome
ErrorOf(kind) ==
  IF cfg.transport = "axios"
    THEN CASE kind = "network" -> AxiosNetworkError
           [] kind = "timeout" -> AxiosTimeoutError
           [] OTHER            -> AxiosHttpError(StatusOf(kind))
    ELSE CASE kind = "network" -> FetchNetworkError
           [] kind = "timeout" -> FetchTimeoutAbort
           [] OTHER            -> FetchHttpError(StatusOf(kind), StatusText(StatusOf(kind)))

\* data, error, loading, isFinished, statusCode, canAbort, aborted
Visible(S) ==
  <<S.data, S.error, S.loading, S.isFinished, S.statusCode, S.canAbort, S.aborted>>

\* the caller-visible states a facade went through, extended by the state S
\* when that differs from the last one.  The state in which useFetch awaits
\* parseResponse is one useAxiosFetch passes through within a synchronous run.
Observe(trace, S) ==
  IF (\E s \in Chains : S.pc[s] = "decode") \/ (trace # <<>> /\ trace[Len(trace)] = Visible(S))
    THEN trace
    ELSE Append(trace, Visible(S))

Observed(S) ==
  IF pair.phase = "axios"
    THEN [pair EXCEPT !.first = Observe(@, S)]
    ELSE [pair EXCEPT !.second = Observe(@, S)]

\* a step of the running facade to S, observed by the caller
CommitObserved(S, p) ==
  /\ CommitState(S)
  /\ pair' = [p EXCEPT !.first = Observed(S).first, !.second = Observed(S).second]
  /\ UNCHANGED <<cfg, audit, table, controllers, defaultOptions, mergedOptions, got>>

InitPair ==
  /\ \E p \in RetryPolicies(MaxStageRetry) :
       cfg = MkConfig("axios", p, FALSE, FALSE, FALSE, FALSE)
  /\ audit = TRUE
  /\ controllers = NoControllers
  /\ InState(Constructed(TRUE, FALSE))
  /\ NoDefaults
  /\ pair = [phase |-> "axios", script |-> <<>>,
             first |-> <<Visible(Constructed(TRUE, FALSE))>>, second |-> <<>>]

\* the caller invokes execute(), once on each facade
PairExecute ==
  /\ \A s \in Chains : pc[s] = "idle"
  /\ CommitObserved(ExecuteNew(Cur), pair)

\* the transport call settles: on the first facade with any outcome, which is
\* recorded; on the second with the next recorded outcome
PairSettle(s) ==
  /\ pc[s] = "transport"
  /\ \E kind \in Outcomes :
       /\ pair.phase = "fetch" => (pair.script # <<>> /\ kind = Head(pair.script))
       /\ LET S == IF kind = "ok"
                     THEN OnResponse([Cur EXCEPT !.seen[s] = @ \cup {"ok"},
                                                 !.request[s].parsedAs = current.responseType], s)
                     ELSE OnRejection([Cur EXCEPT !.seen[s] = @ \cup {ErrorOf(kind).id}],
                                      s, ErrorOf(kind))
          IN  CommitObserved(S, [pair EXCEPT !.script = IF pair.phase = "axios"
                                                           THEN Append(@, kind) ELSE Tail(@)])

\* useFetch: parseResponse has read the body
PairDecode(s) ==
  /\ pc[s] = "decode"
  /\ CommitObserved(AfterDecode(Cur, s), pair)

\* the retry timer fires
PairTimer(s) ==
  /\ pc[s] = "timer"
  /\ CommitObserved(ExecuteBody(Cur, s, TRUE), pair)

\* the first facade has settled: the second one is constructed with the same
\* options
Switch ==
  /\ pair.phase = "axios"
  /\ \E s \in Chains : pc[s] = "done"
  /\ \A s \in Chains : pc[s] \in {"idle", "done"}
  /\ CommitState(Constructed(TRUE, FALSE))
  /\ cfg' = [cfg EXCEPT !.transport = "fetch"]
  /\ pair' = [pair EXCEPT !.phase = "fetch",
                          !.second = <<Visible(Constructed(TRUE, FALSE))>>]
  /\ UNCHANGED <<audit, table, controllers, defaultOptions, mergedOptions, got>>

NextPair ==
  \/ PairExecute
  \/ \E s \in Chains : PairSettle(s)
  \/ \E s \in Chains : PairDecode(s)
  \/ \E s \in Chains : PairTimer(s)
  \/ Switch

SpecPair == InitPair /\ [][NextPair]_vars

\* SpecDefaults: the default options manager of a hook and the requests
\* constructed with it.
\* manager.set(options): deepMerge copies the top level of defaultOptions, so
\* a nested object stays the same object unless options has a value for its key
SetDefaults ==
  \E options \in OptionObjects :
    /\ defaultOptions' = deepMerge(defaultOptions, options)
    /\ got' = [got EXCEPT !.shared = {k \in @ : Get(options, k) = UndefinedValue}]
    /\ UNCHANGED <<envVars, facadeVars, innerVars, chainVars, abortedInFlight, source, current,
                   pair, controllers, audit, table, mergedOptions>>

\* manager.reset()
ResetDefaults ==
  /\ defaultOptions' = EmptyOptions
  /\ got' = [got EXCEPT !.shared = {}]
  /\ UNCHANGED <<envVars, facadeVars, innerVars, chainVars, abortedInFlight, source, current,
                 pair, controllers, audit, table, mergedOptions>>

\* useAxiosFetch(url, options) / useFetch(url, options):
\* mergedOptions = deepMerge(defaultOptionsManager.get(), fetchOptions)
Construct ==
  \E options \in OptionObjects :
    /\ mergedOptions' = [built |-> TRUE, options |-> options,
                         merged |-> deepMerge(defaultOptions, options)]
    /\ UNCHANGED <<envVars, facadeVars, innerVars, chainVars, abortedInFlight, source, current,
                   pair, controllers, audit, table, defaultOptions, got>>

\* getDefaultFetchOptions(): return { ...defaultOptions }, a new object with
\* the own keys of defaultOptions, whose nested objects are those of
\* defaultOptions
GetDefaults ==
  /\ got' = [taken |-> TRUE, modified |-> FALSE, top |-> defaultOptions,
             shared |-> {k \in DOMAIN defaultOptions : isPlainObject(defaultOptions[k])}]
  /\ UNCHANGED <<envVars, facadeVars, innerVars, chainVars, abortedInFlight, source, current,
                 pair, controllers, audit, table, defaultOptions, mergedOptions>>

\* the caller assigns to a key of the object get() returned (returned.timeout
\* = v, returned.headers = v): the manager's object has its own keys
AssignReturned ==
  /\ got.taken
  /\ \E key \in Keys, value \in UNION {ValuesOf(k) : k \in Keys} :
       /\ value \in ValuesOf(key) /\ value # Get(got.top, key)
       /\ got' = [got EXCEPT !.modified = TRUE,
                             !.top = [k \in DOMAIN @ \cup {key} |-> IF k = key THEN value ELSE @[k]],
                             !.shared = @ \ {key}]
  /\ UNCHANGED <<envVars, facadeVars, innerVars, chainVars, abortedInFlight, source, current,
                 pair, controllers, audit, table, defaultOptions, mergedOptions>>

\* the caller assigns to a key of a nested object of the object get() returned
\* (returned.headers.a = v): when that object is the one the manager holds, the
\* manager's defaults change with it
AssignNested ==
  /\ got.taken
  /\ \E key \in DOMAIN got.top, j \in SubKeys, v \in Scalars :
       /\ isPlainObject(got.top[key])
       /\ GetNested(got.top[key], j) # v
       /\ LET written == PlainValue([i \in DOMAIN got.top[key].obj \cup {j} |->
                                       IF i = j THEN v ELSE got.top[key].obj[i]])
          IN  /\ got' = [got EXCEPT !.modified = TRUE, !.top[key] = written]
              /\ defaultOptions' = IF key \in got.shared
                                     THEN [defaultOptions EXCEPT ![key] = written]
                                     ELSE defaultOptions
  /\ UNCHANGED <<envVars, facadeVars, innerVars, chainVars, abortedInFlight, source, current,
                 pair, controllers, audit, table, mergedOptions>>

InitDefaults ==
  /\ cfg = MkConfig("axios", [retry |-> FALSE, retryCount |-> 0, retryDelay |-> 0],
                    FALSE, FALSE, FALSE, FALSE)
  /\ online = TRUE
  /\ hidden = FALSE
  /\ audit = FALSE
  /\ InitFacade

NextDefaults ==
  \/ SetDefaults
  \/ ResetDefaults
  \/ Construct

SpecDefaults == InitDefaults /\ [][NextDefaults]_vars

\* SpecCopy: the default options manager, and a caller that writes to the
\* object get() returned.
NextCopy ==
  \/ SetDefaults
  \/ ResetDefaults
  \/ GetDefaults
  \/ AssignReturned
  \/ AssignNested

SpecCopy == InitDefaults /\ [][NextCopy]_vars

\* SpecBody: the request body and the Content-Type header execute() builds,
\* for every stored method, payload, response type and configured header.
\* A payload is undefined, a string, a FormData or a plain object; the fields
\* of the last two are a function from some of the FieldKeys to a value or null.
FieldKeys == {"k1", "k2"}

FieldSets == UNION {[K -> {"v", "null"}] : K \in SUBSET FieldKeys}

NoFields == [k \in {} |-> "null"]

BodyPayloads ==
  {[kind |-> "undefined", fields |-> NoFields], [kind |-> "string", fields |-> NoFields]}
    \cup {[kind |-> k, fields |-> f] : k \in {"object", "FormData"}, f \in FieldSets}

\* Object.entries(data).forEach(([key, value]) => { if (value !== null &&
\* value !== undefined) formData.append(key, ...) })
ToFormData(payload) ==
  [kind |-> "FormData",
   fields |-> IF payload.kind = "object"
                THEN [k \in {i \in DOMAIN payload.fields : payload.fields[i] # "null"} |->
                        payload.fields[k]]
                ELSE NoFields]

\* the body and the Content-Type header of the request built from the stored
\* configuration cur; contentType "none": no such header is set
SerializeBody(cur) ==
  IF cfg.transport = "axios"
    THEN IF cur.data.kind = "FormData"
           THEN [body |-> cur.data, contentType |-> "none"]
         ELSE IF cur.responseType = "form" /\ cur.data.kind # "undefined"
           THEN [body |-> ToFormData(cur.data), contentType |-> "none"]
         ELSE [body |-> cur.data, contentType |-> cur.contentType]
    ELSE LET header == IF cur.contentType = "none" THEN "application/json"
                                                   ELSE cur.contentType
         IN  IF cur.data.kind = "undefined" \/ cur.method \notin {"POST", "PUT", "PATCH"}
               THEN [body |-> [kind |-> "undefined", fields |-> NoFields],
                     contentType |-> header]
             ELSE IF cur.responseType = "form"
               THEN [body |-> IF cur.data.kind = "FormData" THEN cur.data
                                                            ELSE ToFormData(cur.data),
                     contentType |-> "none"]
             ELSE IF cur.data.kind = "string"
               THEN [body |-> cur.data, contentType |-> header]
             ELSE [body |-> [kind |-> "JSON",
                             fields |-> IF cur.data.kind = "object" THEN cur.data.fields
                                                                    ELSE NoFields],
                   contentType |-> header]

InitBody ==
  /\ \E t \in {"axios", "fetch"} :
       cfg = MkConfig(t, [retry |-> FALSE, retryCount |-> 0, retryDelay |-> 0],
                      FALSE, FALSE, FALSE, FALSE)
  /\ audit = TRUE
  /\ controllers = NoControllers
  /\ pair = NoPair
  /\ NoDefaults
  /\ \E m \in {"GET", "POST", "PUT", "DELETE", "PATCH"}, d \in BodyPayloads,
        r \in FluentCalls \ {"get", "post", "put", "delete", "patch"},
        h \in {"none", "text/plain"} :
       InState([Constructed(TRUE, FALSE) EXCEPT
                  !.current = [method |-> m, data |-> d, responseType |-> r,
                               contentType |-> h]])

\* execute() builds the request of its attempt
SendBody ==
  /\ request[1] = NoRequest
  /\ Commit([Cur EXCEPT !.request[1] = SerializeBody(current)])

NextBody == SendBody

SpecBody == InitBody /\ [][NextBody]_vars

\* SpecParams: the URL useFetch's execute() passes to fetch, for every
\* configured URL, method and params object and every answer of beforeFetch.
\* A URL is its query string, a sequence of key/value entries; a params object
\* is undefined or a function (of) from some of the ParamKeys to a value or null.
ParamKeys == <<"p", "q">>

ParamObjects ==
  {[defined |-> TRUE, of |-> f] :
     f \in UNION {[K -> {"1", "2", "null"}] : K \in SUBSET {ParamKeys[i] : i \in DOMAIN ParamKeys}}}

UndefinedParams == [defined |-> FALSE, of |-> NoFields]

QueryUrls ==
  {<<>>} \cup {<<[key |-> ParamKeys[i], value |-> v]>> : i \in DOMAIN ParamKeys, v \in {"1", "2"}}

RECURSIVE buildQueryStringFrom(_, _)
\* for (const [key, value] of Object.entries(params)) if (value !== null &&
\* value !== undefined) queryParams.append(key, String(value))
buildQueryStringFrom(params, i) ==
  IF i > Len(ParamKeys) THEN <<>>
  ELSE (IF ParamKeys[i] \in DOMAIN params /\ params[ParamKeys[i]] # "null"
          THEN <<[key |-> ParamKeys[i], value |-> params[ParamKeys[i]]]>>
          ELSE <<>>) \o buildQueryStringFrom(params, i + 1)

buildQueryString(params) == buildQueryStringFrom(params, 1)

\* `${url}${separator}${queryString}`: the entries are appended to the query
buildUrl(url, params) ==
  IF DOMAIN params.of = {} THEN url ELSE url \o buildQueryString(params.of)

\* the entries of query whose index is in keep, in order
RECURSIVE Entries(_, _, _)
Entries(query, keep, i) ==
  IF i > Len(query) THEN <<>>
  ELSE (IF i \in keep THEN <<query[i]>> ELSE <<>>) \o Entries(query, keep, i + 1)

\* URLSearchParams.set: the first entry of the key gets the value and the
\* other entries of the key are removed; without one, the entry is appended
SearchParamsSet(query, key, value) ==
  LET at == {i \in DOMAIN query : query[i].key = key}
  IN  IF at = {} THEN Append(query, [key |-> key, value |-> value])
      ELSE LET first == CHOOSE i \in at : \A j \in at : i <= j
               kept  == Entries(query, (DOMAIN query \ at) \cup {first}, 1)
               where == Cardinality({j \in DOMAIN query : j < first /\ j \notin at}) + 1
           IN  [kept EXCEPT ![where] = [key |-> key, value |-> value]]

RECURSIVE mergeUrlParamsFrom(_, _, _)
mergeUrlParamsFrom(url, params, i) ==
  IF i > Len(ParamKeys) THEN url
  ELSE mergeUrlParamsFrom(
         IF ParamKeys[i] \in DOMAIN params /\ params[ParamKeys[i]] # "null"
           THEN SearchParamsSet(url, ParamKeys[i], params[ParamKeys[i]])
           ELSE url,
         params, i + 1)

mergeUrlParams(url, params) ==
  IF DOMAIN params.of = {} THEN url ELSE mergeUrlParamsFrom(url, params.of, 1)

ReadMethods == {"GET", "HEAD", "DELETE"}

InitParams ==
  /\ cfg = MkConfig("fetch", [retry |-> FALSE, retryCount |-> 0, retryDelay |-> 0],
                    FALSE, FALSE, FALSE, FALSE)
  /\ audit = TRUE
  /\ controllers = NoControllers
  /\ pair = NoPair
  /\ NoDefaults
  /\ \E m \in {"GET", "DELETE", "POST"}, u \in QueryUrls,
        ps \in ParamObjects \cup {UndefinedParams} :
       InState([Constructed(TRUE, FALSE) EXCEPT
                  !.current = [method |-> m, url |-> u, params |-> ps]])

\* one attempt of execute() up to the call of fetch; answer is what beforeFetch
\* returns: nothing, the options it was given, or options with new params
ExecuteParams ==
  /\ cfg.transport = "fetch"
  /\ \E answer \in {"nothing", "given", "params"}, params \in ParamObjects :
    LET paramsAlreadyInUrl == current.method \in ReadMethods /\ current.params.defined
        requestUrl == IF paramsAlreadyInUrl THEN buildUrl(current.url, current.params)
                                            ELSE current.url
        given      == IF paramsAlreadyInUrl THEN UndefinedParams ELSE current.params
        options    == IF answer = "nothing" THEN UndefinedParams
                      ELSE IF answer = "given" THEN given ELSE params
        finalUrl   == IF ~options.defined \/ current.method \notin ReadMethods
                        THEN requestUrl
                      ELSE IF paramsAlreadyInUrl THEN mergeUrlParams(<<>>, options)
                      ELSE mergeUrlParams(requestUrl, options)
    IN  Commit([Cur EXCEPT
                  !.current.params = IF options.defined THEN options ELSE @,
                  !.request[1] = [configured |-> current.params, seen |-> requestUrl,
                                  url |-> finalUrl]])

NextParams == ExecuteParams

SpecParams == InitParams /\ [][NextParams]_vars

\* SpecTable: useTableStatic and useTableRequest, constructed with every
\* pagination option and global default, driven by their methods. A pagination
\* option is false, undefined or a configuration object; table.called is the
\* method called last.
PageSizes == {1, 2}

Pages == {1, 2, 3}

Sources == {<<>>, <<"a">>, <<"a", "b">>, <<"a", "b", "c">>}

PaginationOptions ==
  {[kind |-> "false", currentPage |-> 1, pageSize |-> 10],
   [kind |-> "undefined", currentPage |-> 1, pageSize |-> 10]}
    \cup {[kind |-> "object", currentPage |-> 1, pageSize |-> n] : n \in PageSizes}

\* mergeUseTableStaticOptions / mergeUseTableRequestOptions, the pagination key
mergedPagination(userOptions, globalDefault) ==
  IF userOptions.kind = "false" THEN userOptions
  ELSE IF userOptions.kind = "object" THEN userOptions
  ELSE IF globalDefault.kind = "object" THEN globalDefault
  ELSE [kind |-> "undefined", currentPage |-> 1, pageSize |-> 10]

\* createPaginationState: currentPage and pageSize of the state
createPaginationState(config) ==
  IF config.kind = "object"
    THEN [currentPage |-> config.currentPage, pageSize |-> config.pageSize]
    ELSE [currentPage |-> 1, pageSize |-> 10]

filteredData(t) ==
  IF t.filterFn = "none" THEN t.sourceData
  ELSE SelectSeq(t.sourceData, LAMBDA item : item # t.filterFn)

paginatedData_AlwaysSlices(t) ==
  LET filtered == filteredData(t)
      start    == (t.currentPage - 1) * t.pageSize
      end      == start + t.pageSize
  IN  SubSeq(filtered, start + 1, IF end < Len(filtered) THEN end ELSE Len(filtered))

paginatedData(t) ==
  LET filtered == filteredData(t)
      start    == (t.currentPage - 1) * t.pageSize
      end      == start + t.pageSize
  IN  IF ~t.isPaginationEnabled THEN filtered
      ELSE SubSeq(filtered, start + 1, IF end < Len(filtered) THEN end ELSE Len(filtered))

\* buildRequestParams: the paging keys of the query given to the fetcher
buildRequestParams(t) ==
  IF t.isPaginationEnabled
    THEN [paged |-> TRUE, pageIndex |-> t.currentPage, pageSize |-> t.pageSize]
    ELSE [paged |-> FALSE, pageIndex |-> 0, pageSize |-> 0]

\* useTableStatic: refresh() and the watcher of paginatedData assign the page
\* to data; useTableRequest: fetchData() asks the fetcher, which answers with
\* a list of records or fails
Refreshed(t, answer) ==
  IF t.hook = "static"
    THEN [t EXCEPT !.data = paginatedData(t), !.total = Len(filteredData(t))]
    ELSE [t EXCEPT !.query = buildRequestParams(t),
                   !.response = answer,
                   !.data = IF answer.ok THEN answer.list ELSE <<>>,
                   !.total = IF answer.ok THEN Len(answer.list) ELSE 0]

Answers == {[ok |-> TRUE, list |-> l] : l \in Sources} \cup {[ok |-> FALSE, list |-> <<>>]}

exceptTable == <<envVars, facadeVars, innerVars, chainVars, abortedInFlight, source,
                 current, pair, controllers, audit, defaultOptions, mergedOptions, got>>

InitTable ==
  /\ cfg = MkConfig("axios", [retry |-> FALSE, retryCount |-> 0, retryDelay |-> 0],
                    FALSE, FALSE, FALSE, FALSE)
  /\ audit = FALSE
  /\ controllers = NoControllers
  /\ pair = NoPair
  /\ defaultOptions = EmptyOptions /\ mergedOptions = NoMerged /\ got = NotGot
  /\ InState(Constructed(TRUE, FALSE))
  /\ \E hook \in {"static", "request"}, userOptions \in PaginationOptions,
        globalDefault \in PaginationOptions \ {[kind |-> "undefined", currentPage |-> 1, pageSize |-> 10]},
        src \in Sources, filterFn \in {"none", "b"}, answer \in Answers :
       LET config == mergedPagination(userOptions, globalDefault)
           state  == createPaginationState(config)
           t == [hook |-> hook, pagination |-> userOptions.kind,
                 isPaginationEnabled |-> config.kind # "false",
                 currentPage |-> state.currentPage, pageSize |-> state.pageSize,
                 sourceData |-> IF hook = "static" THEN src ELSE <<>>,
                 filterFn |-> IF hook = "static" THEN filterFn ELSE "none",
                 query |-> [paged |-> FALSE, pageIndex |-> 0, pageSize |-> 0],
                 response |-> [ok |-> FALSE, list |-> <<>>],
                 data |-> <<>>, total |-> 0, called |-> "setup"]
       IN  table = Refreshed(t, answer)

changePage ==
  \E page \in Pages, answer \in Answers :
    /\ table' = Refreshed([table EXCEPT !.currentPage = page, !.called = "changePage"], answer)
    /\ UNCHANGED exceptTable

changePageSize ==
  \E size \in PageSizes, answer \in Answers :
    /\ table' = Refreshed([table EXCEPT !.pageSize = size, !.currentPage = 1,
                                       !.called = "changePageSize"], answer)
    /\ UNCHANGED exceptTable

reset ==
  \E answer \in Answers :
    /\ table' = Refreshed([table EXCEPT !.currentPage = 1, !.called = "reset"], answer)
    /\ UNCHANGED exceptTable

refresh ==
  \E answer \in Answers :
    /\ table' = Refreshed([table EXCEPT !.called = "refresh"], answer)
    /\ UNCHANGED exceptTable

\* the caller replaces the source list of useTableStatic: the watcher of the
\* source pulls currentPage back to the last page, the watcher of
\* paginatedData assigns data
SourceChange ==
  /\ table.hook = "static"
  /\ \E src \in Sources \ {table.sourceData} :
       LET t       == [table EXCEPT !.sourceData = src, !.called = "source"]
           n       == Len(filteredData(t))
           maxPage == (n + t.pageSize - 1) \div t.pageSize
       IN  table' = Refreshed(IF t.currentPage > maxPage /\ maxPage > 0
                                THEN [t EXCEPT !.currentPage = maxPage] ELSE t,
                              [ok |-> FALSE, list |-> <<>>])
  /\ UNCHANGED exceptTable

NextTable == changePage \/ changePageSize \/ reset \/ refresh \/ SourceChange

SpecTable == InitTable /\ [][NextTable]_vars

\* SpecOverride: executions of one facade, one after the other, whose
\* beforeFetch returns nothing or returns options with a method, data or both.
\* the options beforeFetch returns: method "none" and data undefined are absent
Overrides ==
  {[method |-> m, data |-> d] : m \in {"none", "PUT"}, d \in {NoPayload, "o"}}
    \ {[method |-> "none", data |-> NoPayload]}

\* useAxiosFetch: axiosConfig = { ...axiosConfig, ...beforeFetchResult.options };
\* useFetch: fetchConfig.method = options.method, fetchConfig.body = the
\* FormData or the JSON text of options.data
OverrideRequest(req, cur, o) ==
  [req EXCEPT
     !.method = IF o.method # "none" THEN o.method ELSE @,
     !.body = IF o.data = NoPayload THEN @
              ELSE IF cfg.transport = "axios" THEN [kind |-> "data", of |-> o.data]
              ELSE IF cur.responseType = "form" THEN [kind |-> "FormData", of |-> o.data]
              ELSE [kind |-> "JSON", of |-> o.data]]

\* useFetch: currentMethod.value = options.method; currentData.value =
\* options.data; useAxiosFetch writes no stored value
OverrideStored(cur, o) ==
  IF cfg.transport = "axios" THEN cur
  ELSE [cur EXCEPT !.method = IF o.method # "none" THEN o.method ELSE @,
                   !.data = IF o.data # NoPayload THEN o.data ELSE @]

\* beforeFetch of chain s returns options that override the request
BeforeFetchOverride(s) ==
  /\ pc[s] = "beforeFetch"
  /\ \E o \in Overrides :
       Commit(IssueCall([Cur EXCEPT !.request[s] = OverrideRequest(@, current, o),
                                    !.current = OverrideStored(@, o)], s))

\* execute() called when the previous execution has ended
ExecuteNext ==
  /\ \A s \in Chains : pc[s] \in {"idle", "done"}
  /\ Execute

InitOverride ==
  /\ \E t \in {"axios", "fetch"} :
       cfg = WithStages(MkConfig(t, [retry |-> FALSE, retryCount |-> 0, retryDelay |-> 0],
                                 FALSE, FALSE, FALSE, FALSE),
                        TRUE, FALSE, FALSE, FALSE)
  /\ audit = TRUE
  /\ controllers = NoControllers
  /\ pair = NoPair
  /\ NoDefaults
  /\ \E m \in {"GET", "POST"}, d \in Payloads \cup {NoPayload}, r \in {"json", "form"} :
       InState([Constructed(TRUE, FALSE) EXCEPT
                  !.current = [method |-> m, data |-> d, responseType |-> r]])

NextOverride ==
  \/ ExecuteNext
  \/ \E s \in Chains : BeforeFetchSettle(s)
  \/ \E s \in Chains : BeforeFetchOverride(s)
  \/ \E s \in Chains : CancelledCallRejects(s)
  \/ \E s \in Chains : TransportResolve(s)
  \/ \E s \in Chains : TransportReject(s)
  \/ \E s \in Chains : DecodeSettle(s)

SpecOverride == InitOverride /\ [][NextOverride]_vars

\* SpecReactive: the facade inside a mounted component, with the network and
\* visibility events; no retry.
InitReactive ==
  /\ \E t \in {"axios", "fetch"}, r \in BOOLEAN, f \in BOOLEAN, b \in BOOLEAN :
       cfg = MkConfig(t, [retry |-> FALSE, retryCount |-> 0, retryDelay |-> 0], r, f, b, FALSE)
  /\ online \in BOOLEAN
  /\ hidden \in BOOLEAN
  /\ audit = FALSE
  /\ InitFacade

NextReactive ==
  \/ Execute
  \/ CallerAbort
  \/ \E s \in Chains : TransportResolve(s)
  \/ \E s \in Chains : TransportReject(s)
  \/ \E s \in Chains : DecodeSettle(s)
  \/ Mount
  \/ Unmount
  \/ NetOffline
  \/ NetOnline
  \/ VisHide
  \/ VisShow

SpecReactive == InitReactive /\ [][NextReactive]_vars

\* SpecFocus: a facade without retry, online throughout, in a component that
\* is mounted and unmounted while the page is hidden and shown.
InitFocus ==
  /\ \E t \in {"axios", "fetch"}, f \in BOOLEAN, b \in BOOLEAN :
       cfg = MkConfig(t, [retry |-> FALSE, retryCount |-> 0, retryDelay |-> 0], FALSE, f, b, FALSE)
  /\ online = TRUE
  /\ hidden \in BOOLEAN
  /\ audit = FALSE
  /\ InitFacade

NextFocus ==
  \/ Execute
  \/ \E s \in Chains : TransportResolve(s)
  \/ \E s \in Chains : TransportReject(s)
  \/ \E s \in Chains : DecodeSettle(s)
  \/ Mount
  \/ Unmount
  \/ VisHide
  \/ VisShow

SpecFocus == InitFocus /\ [][NextFocus]_vars

\* SpecBlur: a facade with cancelOnBlur and a beforeFetch interceptor, online
\* throughout, executed (also overlapping, also with retries) in a mounted
\* component, its visibility listener attached, while the page is hidden and
\* shown.
InitBlur ==
  /\ \E t \in {"axios", "fetch"}, p \in RetryPolicies(MaxStageRetry), f \in BOOLEAN :
       cfg = WithStages(MkConfig(t, p, FALSE, f, TRUE, FALSE), TRUE, FALSE, FALSE, FALSE)
  /\ audit = FALSE
  /\ controllers = NoControllers
  /\ pair = NoPair
  /\ NoDefaults
  /\ \E h \in BOOLEAN : InState([Constructed(TRUE, h) EXCEPT !.mounted = "mounted"])

NextBlur ==
  \/ Execute
  \/ \E s \in Chains : BeforeFetchSettle(s)
  \/ \E s \in Chains : CancelledCallRejects(s)
  \/ \E s \in Chains : TransportResolve(s)
  \/ \E s \in Chains : TransportReject(s)
  \/ \E s \in Chains : DecodeSettle(s)
  \/ \E s \in Chains : TimerFire(s)
  \/ VisHide
  \/ VisShow

SpecBlur == InitBlur /\ [][NextBlur]_vars

\* SpecStages: one execute() of a facade with interceptors and observers,
\* online and visible, left alone until it has settled, with the history of
\* the chain recorded.
InitStages ==
  /\ \E t \in {"axios", "fetch"}, p \in RetryPolicies(MaxStageRetry),
        b \in BOOLEAN, a \in BOOLEAN, o \in BOOLEAN, h \in BOOLEAN, to \in BOOLEAN :
       cfg = WithStages(MkConfig(t, p, FALSE, FALSE, FALSE, h), b, a, o, to)
  /\ online = TRUE
  /\ hidden = FALSE
  /\ audit = TRUE
  /\ InitFacade

NextStages ==
  \/ ExecuteOnce
  \/ \E s \in Chains : BeforeFetchSettle(s)
  \/ \E s \in Chains : TransportResolve(s)
  \/ \E s \in Chains : TransportReject(s)
  \/ \E s \in Chains : DecodeSettle(s)
  \/ \E s \in Chains : AfterFetchSettle(s)
  \/ \E s \in Chains : ObserversSettle(s)
  \/ \E s \in Chains : OnFetchErrorSettle(s)
  \/ \E s \in Chains : ErrorObserversSettle(s)
  \/ \E s \in Chains : TimerFire(s)

SpecStages == InitStages /\ [][NextStages]_vars

\* SpecAbort: the same execute(), with abort() called at any moment.  abort()
\* resets the retry counter, so the calls and the retries of a chain are
\* unbounded: abort() is followed while the chain has made no more calls, and
\* scheduled no more retries, than one full retry sequence.
BoundedAbort ==
  /\ \A s \in Chains : calls[s] <= MaxStageRetry + 1 /\ Len(attempts[s]) <= MaxStageRetry + 1
  /\ CallerAbort

NextAbort ==
  \/ ExecuteOnce
  \/ BoundedAbort
  \/ \E s \in Chains : BeforeFetchSettle(s)
  \/ \E s \in Chains : CancelledCallRejects(s)
  \/ \E s \in Chains : TransportResolve(s)
  \/ \E s \in Chains : TransportReject(s)
  \/ \E s \in Chains : DecodeSettle(s)
  \/ \E s \in Chains : AfterFetchSettle(s)
  \/ \E s \in Chains : ObserversSettle(s)
  \/ \E s \in Chains : OnFetchErrorSettle(s)
  \/ \E s \in Chains : ErrorObserversSettle(s)
  \/ \E s \in Chains : TimerFire(s)

SpecAbort == InitStages /\ [][NextAbort]_vars

\* SpecCancel: overlapping executions and abort() of a facade with or without
\* beforeFetch and with or without a timeout; no retry.
InitCancel ==
  /\ \E t \in {"axios", "fetch"}, b \in BOOLEAN, to \in BOOLEAN :
       cfg = WithStages(MkConfig(t, [retry |-> FALSE, retryCount |-> 0, retryDelay |-> 0],
                                 FALSE, FALSE, FALSE, FALSE),
                        b, FALSE, FALSE, to)
  /\ online = TRUE
  /\ hidden = FALSE
  /\ audit = FALSE
  /\ InitFacade

NextCancel ==
  \/ Execute
  \/ CallerAbort
  \/ \E s \in Chains : BeforeFetchSettle(s)
  \/ \E s \in Chains : CancelledCallRejects(s)
  \/ \E s \in Chains : TransportResolve(s)
  \/ \E s \in Chains : TransportReject(s)
  \/ \E s \in Chains : DecodeSettle(s)

SpecCancel == InitCancel /\ [][NextCancel]_vars

\* SpecWiring: the controllers of a useFetch with a timeout, over executions
\* that may overlap, abort() and the timeout timers
InitWiring ==
  /\ online = TRUE /\ hidden = FALSE
  /\ \E b \in BOOLEAN :
       cfg = WithStages(MkConfig("fetch", [retry |-> FALSE, retryCount |-> 0, retryDelay |-> 0],
                                 FALSE, FALSE, FALSE, FALSE),
                        b, FALSE, FALSE, TRUE)
  /\ audit = FALSE
  /\ InitFacade

NextWiring ==
  /\ \/ WireExecute
     \/ \E a \in Attempts : WireBeforeFetch(a)
     \/ \E a \in Attempts : WireFetchSettle(a)
     \/ WireTimeout
     \/ WireAbort
  /\ UNCHANGED <<envVars, facadeVars, innerVars, chainVars, abortedInFlight, source, current,
                  pair, audit, table, defaultOptions, mergedOptions, got>>

SpecWiring == InitWiring /\ [][NextWiring]_vars

\* SpecOnError: one execute() of a facade with an onFetchError interceptor,
\* with and without updateDataOnError
InitOnError ==
  /\ \E t \in {"axios", "fetch"}, p \in RetryPolicies(MaxStageRetry),
        o \in BOOLEAN, u \in BOOLEAN :
       cfg = [WithStages(MkConfig(t, p, FALSE, FALSE, FALSE, TRUE), FALSE, FALSE, o, FALSE)
                EXCEPT !.updateDataOnError = u]
  /\ online = TRUE
  /\ hidden = FALSE
  /\ audit = TRUE
  /\ InitFacade

NextOnError ==
  \/ ExecuteOnce
  \/ \E s \in Chains : TransportResolve(s)
  \/ \E s \in Chains : TransportReject(s)
  \/ \E s \in Chains : DecodeSettle(s)
  \/ \E s \in Chains : ObserversSettle(s)
  \/ \E s \in Chains : OnFetchErrorSettle(s)
  \/ \E s \in Chains : ErrorObserversSettle(s)
  \/ \E s \in Chains : TimerFire(s)

SpecOnError == InitOnError /\ [][NextOnError]_vars

\* SpecUrl: a facade on a reactive url, with refetch and immediate set or not;
\* with immediate the constructor has called execute()
InitUrl ==
  /\ \E t \in {"axios", "fetch"}, i \in BOOLEAN, r \in BOOLEAN :
       cfg = [MkConfig(t, [retry |-> FALSE, retryCount |-> 0, retryDelay |-> 0],
                       FALSE, FALSE, FALSE, FALSE)
                EXCEPT !.immediate = i, !.refetch = r]
  /\ audit = FALSE
  /\ controllers = NoControllers
  /\ pair = NoPair
  /\ NoDefaults
  /\ InState(IF cfg.immediate THEN ExecuteNew(Constructed(TRUE, FALSE))
                               ELSE Constructed(TRUE, FALSE))

NextUrl ==
  \/ Execute
  \/ UrlChange
  \/ WatcherFlush
  \/ \E s \in Chains : TransportResolve(s)
  \/ \E s \in Chains : TransportReject(s)
  \/ \E s \in Chains : DecodeSettle(s)

SpecUrl == InitUrl /\ [][NextUrl]_vars

\* ------------------------------------------------------------------ claims
\* the rejections the claims call retry-eligible: a network failure, a 5xx response
RetryableIds == {"network", "http500"}

ClientErrorIds == {"http404", "http408"}

\* C1 (as claimed): once abort() has hit an in-flight transport call, and until
\* the next execute() of the caller, aborted and isFinished are true, loading is
\* false and error is unset, however the in-flight call settles.
C1_AbortInFlightStays ==
  abortedInFlight => (aborted /\ isFinished /\ ~loading /\ error = NoError)

\* C2 (as claimed): with retry enabled and retryCount = N, when every transport
\* call of one execute() fails with a retry-eligible error, the transport has
\* been called exactly N times once error is set or isFinished is true.
C2_ExactlyRetryCountCalls ==
  \A s \in Chains :
    (cfg.retry /\ seen[s] # {} /\ seen[s] \subseteq RetryableIds
       /\ (error # NoError \/ isFinished))
      => calls[s] = cfg.retryCount

\* C2 (amended): under the same conditions the transport has been called
\* exactly N + 1 times (the first attempt and N retries) once error is set or
\* isFinished is true, and never more than N + 1 times.
C2_RetryCountPlusOneCalls ==
  \A s \in Chains :
    (cfg.retry /\ seen[s] # {} /\ seen[s] \subseteq RetryableIds)
      => /\ calls[s] <= cfg.retryCount + 1
         /\ (error # NoError \/ isFinished) => calls[s] = cfg.retryCount + 1

\* C2 witness: a policy of at least two retries ran out on a failing transport.
C2_Witness ==
  \E s \in Chains :
    /\ cfg.retry /\ cfg.retryCount >= 2
    /\ seen[s] # {} /\ seen[s] \subseteq RetryableIds
    /\ isFinished /\ error # NoError /\ pc[s] = "done"
    /\ calls[s] = cfg.retryCount + 1

\* C3 (as claimed): with retry disabled, an execute() that has returned made
\* exactly one transport call.
C3_ExactlyOneCall ==
  \A s \in Chains : (~cfg.retry /\ pc[s] = "done") => calls[s] = 1

\* C3 (amended): with retry disabled, an execute() makes at most one transport
\* call: exactly one when it reaches the transport call, whatever the outcome,
\* and none when it returns early (offline with refetchOnReconnect, hidden with
\* cancelOnBlur).
C3_AtMostOneCall ==
  \A s \in Chains :
    ~cfg.retry =>
      /\ calls[s] <= 1
      /\ pc[s] = "done" => (calls[s] = 0 <=> endKind[s] \in {"offline", "hidden"})
      /\ pc[s] = "done" => (calls[s] = 1 <=> endKind[s] \in {"success", "cancel", "fail"})

\* C3 witness: retry disabled, retryCount left at a positive value, and the one
\* call answered 5xx: the execution ended in failure after one call.
C3_Witness ==
  \E s \in Chains :
    /\ ~cfg.retry /\ cfg.retryCount >= 1
    /\ pc[s] = "done" /\ endKind[s] = "fail" /\ seen[s] = {"http500"}
    /\ calls[s] = 1

\* C4 (as claimed): aborted = true implies isFinished = true and error unset.
C4_AbortedImpliesFinishedNoError ==
  aborted => (isFinished /\ error = NoError)

\* C5: loading and isFinished are never both true.
C5_NotLoadingAndFinished == ~(loading /\ isFinished)

\* C5 witness: two executions overlap, one has ended and set isFinished while
\* the other waits in its retry delay.
C5_Witness ==
  \E a, b \in Chains :
    /\ a # b /\ pc[a] = "done" /\ pc[b] = "timer"
    /\ isFinished /\ ~loading /\ data = a

\* C6 (as claimed): a chain whose transport calls were all answered 4xx called
\* the transport once (the 4xx failure was not retried).
C6_ClientErrorNotRetried ==
  \A s \in Chains :
    (seen[s] # {} /\ seen[s] \subseteq ClientErrorIds) => calls[s] = 1

\* C7: from the first retry of an execution until its terminal outcome (during
\* the retry delay and during the retried transport call) loading is true,
\* isFinished is false and error is unset.
C7_NoFlickerDuringRetries ==
  \A s \in Chains :
    (retried[s] /\ pc[s] \in {"timer", "transport"})
      => (loading /\ ~isFinished /\ error = NoError)

\* C7 witness: the second failed attempt of an execution waits in its retry delay.
C7_Witness ==
  \E s \in Chains : retried[s] /\ pc[s] = "timer" /\ calls[s] = 2 /\ loading

\* C8 (as claimed): the promise of execute() has resolved only when the retry
\* sequence has reached its terminal outcome.
C8_ResolvesAfterTerminal ==
  \A s \in Chains : ret[s] # "pending" => pc[s] = "done"

\* C9 (as claimed): an execution that ended in terminal failure resolved
\* execute() with error set.
C9_ReturnedErrorOnFailure ==
  \A s \in Chains : (pc[s] = "done" /\ endKind[s] = "fail") => ret[s] = "err"

\* C10 (as claimed): when the cancelled transport call of an older attempt
\* settles while a newer attempt is in flight with its own, uncancelled token,
\* loading, aborted, isFinished and canAbort are left as the newer attempt set
\* them.
C10_OlderCancelLeavesNewer ==
  [][\A a, b \in Chains :
       (/\ a < b
        /\ pc[a] = "transport" /\ cancelled[a]
        /\ pc[b] = "transport" /\ ~cancelled[b]
        /\ pc'[a] = "done" /\ pc'[b] = "transport")
       => (/\ loading' = loading /\ aborted' = aborted
           /\ isFinished' = isFinished /\ canAbort' = canAbort)]_vars

\* the stages in which an attempt is suspended between its start and its return
AttemptStages ==
  {"beforeFetch", "transport", "rejecting", "decode", "afterFetch",
   "observers", "onFetchError", "errorObservers"}

\* C11 (as claimed): at most one transport call of the facade is in flight at
\* any time.
C11_OneCallInFlight ==
  Cardinality({s \in Chains : pc[s] \in {"transport", "rejecting"}}) <= 1

\* C12 (as claimed): a delayed retry never starts its attempt while another
\* attempt of the facade is suspended in its transport call or an interceptor.
C12_RetriesSequential ==
  [][\A s \in Chains :
       (pc[s] = "timer" /\ pc'[s] \in AttemptStages)
         => \A t \in Chains \ {s} : pc[t] \notin AttemptStages]_vars

\* C13 (as claimed): when the facade is cancelled (abort() cancels and clears
\* the cancellation handle), every pending retry delay is cancelled with it:
\* no chain is left waiting in a retry delay that will fire a transport call.
C13_CancelClearsRetryDelays ==
  [][(cancelTokenSource # Null /\ cancelTokenSource' = Null)
       => \A s \in Chains : pc'[s] # "timer"]_vars

\* cancellation reached the attempt of chain s while it is suspended in
\* beforeFetch or in its transport call
CancelledWhileSuspended(s) ==
  /\ pc[s] \in {"beforeFetch", "transport"}
  /\ cancelled[s] \/ timeoutAborted[s]

\* C14 (as claimed): an attempt that was cancelled while suspended in
\* beforeFetch or in its transport call stops when the suspension ends: it
\* issues no transport call, decodes nothing, and leaves data and statusCode
\* as they are.
C14_CancelledAttemptStops ==
  [][\A s \in Chains :
       (CancelledWhileSuspended(s) /\ pc'[s] # pc[s])
         => (pc'[s] = "done" /\ data' = data /\ statusCode' = statusCode)]_vars

\* C15: when the transport call (or the reading of the body) of an attempt
\* fails with the cancellation error, execute() returns in that step: aborted
\* and isFinished are true, loading is false, error is left as it was, neither
\* onFetchError nor an error observer is invoked, no retry delay is scheduled,
\* no further call is issued and the retry counter is not incremented.
C15_CancelSkipsErrorHandling ==
  [][\A s \in Chains :
       ("cancel" \notin seen[s] /\ "cancel" \in seen'[s])
         => /\ pc'[s] = "done" /\ endKind'[s] = "cancel"
            /\ aborted' /\ isFinished' /\ ~loading' /\ error' = error
            /\ hooks' = hooks
            /\ retryTimer' = retryTimer
            /\ currentRetryCount' = currentRetryCount
            /\ calls' = calls]_vars

\* C15 witness: with retry and onFetchError configured, the call of an aborted
\* execution was rejected with the cancellation error and the execution ended.
C15_Witness ==
  \E s \in Chains :
    /\ cfg.retry /\ cfg.retryCount >= 1 /\ cfg.hasOnFetchError /\ cfg.hasObservers
    /\ pc[s] = "done" /\ endKind[s] = "cancel" /\ seen[s] = {"cancel"}
    /\ aborted /\ isFinished /\ error = NoError
    /\ hooks[s].interceptor = 0 /\ hooks[s].observers = 0 /\ calls[s] = 1

\* C16 (as claimed): an attempt whose beforeFetch invoked cancel() never writes
\* a response to data, and when it has ended (no other execution started) the
\* facade is cancelled: aborted and isFinished are true, loading is false and
\* error is unset.
C16_BeforeFetchCancelEnds ==
  \A s \in Chains :
    triggered[s] =>
      /\ data \notin {s, Replaced(s)}
      /\ pc[s] \notin {"decode", "afterFetch", "observers"}
      /\ (pc[s] = "done" /\ \A t \in Chains \ {s} : pc[t] = "idle")
           => (aborted /\ isFinished /\ ~loading /\ error = NoError)

\* C17 (as claimed): an execution all of whose transport calls ran into the
\* configured timeout ends in failure: every timeout was retried while the
\* policy allowed, error is set and aborted is false.
C17_TimeoutIsFailure ==
  \A s \in Chains :
    (seen[s] = {"timeout"} /\ pc[s] = "done")
      => /\ endKind[s] = "fail"
         /\ error # NoError /\ ~aborted
         /\ cfg.retry => calls[s] = cfg.retryCount + 1

\* the step runs the oldest timeout timer / is an abort() with a controller
TimerRuns ==
  controllers.timers # <<>> /\ controllers'.timers = Tail(controllers.timers)
ManualAbort ==
  controllers.abortController # Null /\ controllers'.abortController = Null

\* C18: in useFetch with a timeout, (1) the mutual wiring of the two abort
\* functions terminates, (2) every signal dispatches its abort event at most
\* once, (3) when the timeout timer of an attempt runs, its timeout signal and
\* the manual signal it is wired to are both aborted, (4) abort() aborts both
\* signals of every in-flight call wired to the current controller, and (5) the
\* timer of an attempt whose call has ended aborts the call of no other attempt.
C18_TimeoutAndCancelLinked ==
  [][ /\ ~controllers'.diverged
      /\ \A o \in Objects :
           controllers'.events[o] = IF controllers'.signalAborted[o] THEN 1 ELSE 0
      /\ TimerRuns =>
           LET a == Head(controllers.timers)
           IN  /\ controllers'.signalAborted[TimeoutOf(a)]
               /\ controllers'.signalAborted[controllers.target[a]]
               /\ controllers.stage[a] = "ended" =>
                    \A b \in Attempts \ {a} :
                      controllers.stage[b] = "fetch" =>
                        controllers'.signalAborted[TimeoutOf(b)]
                          = controllers.signalAborted[TimeoutOf(b)]
      /\ ManualAbort =>
           \A a \in Attempts :
             (controllers.stage[a] = "fetch"
                /\ controllers.target[a] = controllers.abortController)
               => /\ controllers'.signalAborted[TimeoutOf(a)]
                  /\ controllers'.signalAborted[controllers.target[a]]
    ]_vars

\* the timer left by an ended attempt has run, a later attempt is in flight,
\* its signal is not aborted and its own timer is pending
C18_Witness ==
  \E a, b \in Attempts :
    /\ a < b
    /\ controllers.stage[a] = "ended" /\ controllers.stage[b] = "fetch"
    /\ controllers.timers = <<b>>
    /\ controllers.signalAborted[TimeoutOf(a)]
    /\ controllers.signalAborted[controllers.target[a]]
    /\ controllers.events[TimeoutOf(a)] = 1
    /\ ~controllers.signalAborted[TimeoutOf(b)]

\* the stages of the terminal failure of an execution, and its end
FailureStages == {"onFetchError", "errorObservers", "done"}

StageOrder ==
  <<"beforeFetch", "transport", "decode", "afterFetch", "observers",
    "onFetchError", "errorObservers">>
StageRank(stage) == CHOOSE i \in 1..Len(StageOrder) : StageOrder[i] = stage

\* the stages an attempt that ended with `kind` must have gone through
RequiredStages(kind) ==
  IF kind = "success"
    THEN {"transport"}
           \cup (IF cfg.hasBeforeFetch THEN {"beforeFetch"} ELSE {})
           \cup (IF cfg.transport = "fetch" THEN {"decode"} ELSE {})
           \cup (IF cfg.hasAfterFetch THEN {"afterFetch"} ELSE {})
           \cup (IF cfg.hasObservers THEN {"observers"} ELSE {})
    ELSE (IF cfg.hasOnFetchError THEN {"onFetchError"} ELSE {})
           \cup (IF cfg.hasObservers THEN {"errorObservers"} ELSE {})

\* C20: the stages an attempt has entered are in the fixed order, each at most
\* once; the attempt is suspended in the stage it entered last, so a stage
\* starts only when the previous one has settled; isFinished is false while a
\* stage is running, and an execution that ended in success or in terminal
\* failure went through every configured stage of that outcome, the observers
\* last, before isFinished became true.
C20_StagesInOrder ==
  \A s \in Chains :
    /\ \A i, j \in 1..Len(log[s]) :
         i < j => StageRank(log[s][i]) < StageRank(log[s][j])
    /\ pc[s] \in AttemptStages
         => /\ log[s] # <<>>
            /\ log[s][Len(log[s])] = (IF pc[s] = "rejecting" THEN "transport" ELSE pc[s])
            /\ ~isFinished
    /\ pc[s] = "timer" => ~isFinished
    /\ (pc[s] = "done" /\ endKind[s] \in {"success", "fail"})
         => /\ isFinished
            /\ RequiredStages(endKind[s]) \subseteq {log[s][i] : i \in 1..Len(log[s])}
            /\ (endKind[s] = "success"
                  => {"onFetchError", "errorObservers"}
                       \cap {log[s][i] : i \in 1..Len(log[s])} = {})

\* a useFetch execution with every stage configured that ended in success
C20_Witness ==
  \E s \in Chains :
    /\ cfg.transport = "fetch"
    /\ pc[s] = "done" /\ endKind[s] = "success" /\ isFinished
    /\ log[s] = <<"beforeFetch", "transport", "decode", "afterFetch", "observers">>

\* C21 (as claimed): the response observers of an attempt are called after
\* afterFetch has settled, in registration order, and each is given the payload
\* stored in data.
C21_ObserversGetFinalPayload ==
  \A s \in Chains :
    \A i \in 1..Len(notified[s]) :
      /\ notified[s][i].callback = i
      /\ pc[s] \notin {"beforeFetch", "transport", "rejecting", "decode", "afterFetch"}
      /\ cfg.hasAfterFetch => \E j \in 1..Len(log[s]) : log[s][j] = "afterFetch"
      /\ notified[s][i].payload = data

\* the step in which afterFetch of chain s settles with an Error (returned,
\* thrown or rejected): the attempt leaves the stage without going on to the
\* response observers or to success
AfterFetchFailed(s) ==
  /\ pc[s] = "afterFetch"
  /\ pc'[s] \notin {"afterFetch", "observers"}
  /\ ~(pc'[s] = "done" /\ endKind'[s] = "success")

\* C22: when afterFetch settles with an Error the attempt does not write data;
\* while the retry policy allows another attempt it is retried like a network
\* failure (counter + 1, error unset, no error hook); otherwise it is the
\* terminal failure: error is set and onFetchError, if configured, is invoked.
C22_AfterFetchErrorIsFailure ==
  [][ \A s \in Chains :
        AfterFetchFailed(s) =>
          /\ data' = data
          /\ IF cfg.retry /\ currentRetryCount < cfg.retryCount
               THEN /\ currentRetryCount' = currentRetryCount + 1
                    /\ error' = NoError
                    /\ hooks' = hooks
                    /\ pc'[s] \in {"timer", "beforeFetch", "transport"}
               ELSE /\ error' = InterceptorError.id
                    /\ pc'[s] \in FailureStages
                    /\ hooks'[s].interceptor
                         = hooks[s].interceptor + (IF cfg.hasOnFetchError THEN 1 ELSE 0)
    ]_vars

\* an execution whose afterFetch failed in every attempt: retried, then failed
\* terminally with data untouched and onFetchError invoked
C22_Witness ==
  \E s \in Chains :
    /\ cfg.hasAfterFetch /\ cfg.hasOnFetchError /\ ~cfg.hasBeforeFetch
    /\ retried[s] /\ seen[s] = {"ok"} /\ calls[s] = cfg.retryCount + 1
    /\ pc[s] = "done" /\ endKind[s] = "fail"
    /\ \E j \in 1..Len(log[s]) : log[s][j] = "afterFetch"
    /\ \A j \in 1..Len(log[s]) : log[s][j] # "observers"
    /\ error = InterceptorError.id /\ data = NoData
    /\ hooks[s].interceptor = 1

\* C23 (as claimed): an onFetchError that throws leaves the error of the
\* failure in place; data takes the data onFetchError returns only with
\* updateDataOnError; without it an execution that failed leaves data as it
\* was before the execution.
C23_OnErrorFrame ==
  \A s \in Chains :
    /\ (onFetchErrorResult[s] = "throw") => error \notin {NoError, "replaced"}
    /\ (onFetchErrorResult[s] \in {"replace", "both"}) => error = "replaced"
    /\ (data = OnErrorData(s)) => cfg.updateDataOnError
    /\ (pc[s] = "done" /\ endKind[s] \in {"fail", "threw"} /\ ~cfg.updateDataOnError)
         => data = NoData

\* the executions started so far
Started == {s \in Chains : pc[s] # "idle"}

\* C24 (as claimed): with refetch each change of the url to a distinct value
\* starts exactly one execution, when the watcher runs for it; without refetch
\* no watcher is scheduled and a change of the url starts nothing.
C24_UrlChangeRefetches ==
  [][ /\ (source.queued /\ ~source'.queued /\ source.url # source.watched)
           => Cardinality({s \in Chains : pc'[s] # "idle"}) = Cardinality(Started) + 1
      /\ source'.queued => cfg.refetch
      /\ (source'.url # source.url)
           => {s \in Chains : pc'[s] # "idle"} = Started
    ]_vars

\* the executions started by the step
StartedInStep == {s \in Chains : pc[s] = "idle" /\ pc'[s] # "idle"}

\* C25 (as claimed): with the network listeners attached, (1) an 'offline'
\* event cancels an in-flight cancellable attempt and marks it for resumption;
\* (2) an 'online' event starts at most one execution, and only with the mark
\* set and loading false; (3) an 'online' event of a facade that has never
\* started an execution (so none was interrupted or skipped) starts none.
C25_ReconnectResumes ==
  [][ /\ (online /\ ~online' /\ NetListener /\ cancelTokenSource # Null /\ canAbort)
           => (aborted' /\ ~loading' /\ ~canAbort' /\ wasOfflineDuringRequest')
      /\ (~online /\ online')
           => /\ Cardinality(StartedInStep) <= 1
              /\ StartedInStep # {}
                   => (NetListener /\ wasOfflineDuringRequest /\ ~loading)
              /\ Started = {} => StartedInStep = {}
    ]_vars

\* does becoming visible owe an execution: refetchOnFocus, or the mark of a
\* blur-cancellation
FocusOwed == cfg.refetchOnFocus \/ wasCancelledDueToBlur

Scheduled(s) == Len(attempts'[s]) - Len(attempts[s])

\* C27: the retry counter stays within 0..retryCount; it is 0 at the start of
\* a non-retry execute() (after the step that starts chain s it equals the
\* retries s scheduled since); each scheduled retry increments it by one and
\* passes to getRetryDelay its number k within the sequence; without a
\* scheduled retry the counter is unchanged or reset to 0; a positive delay
\* leaves the retry to the timer, a non-positive one runs it at once.
C27_RetryCounter ==
  [][ /\ currentRetryCount' \in 0..cfg.retryCount
      /\ \A s \in Chains :
           /\ Scheduled(s) >= 0
           /\ s \in StartedInStep => currentRetryCount' = Len(attempts'[s])
           /\ Scheduled(s) > 0 =>
                /\ \A k \in 1..Len(attempts'[s]) : attempts'[s][k] = k
                /\ pc[s] # "idle" => currentRetryCount' = currentRetryCount + Scheduled(s)
                /\ IF getRetryDelay(cfg.retryDelay, currentRetryCount') > 0
                     THEN pc'[s] = "timer" /\ retryTimer' = s
                     ELSE pc'[s] # "timer" /\ retryTimer' = retryTimer
      /\ (\A s \in Chains : Scheduled(s) = 0)
           => currentRetryCount' \in {currentRetryCount, 0}
    ]_vars

\* the attempts chain s issues in a step
Issued(s) == calls'[s] > calls[s]

\* C29: a fluent call changes the stored method, body or response type and
\* nothing else (the state of the facade, the executions and the requests in
\* flight are as before), and every attempt issued, a retry included, is built
\* from the configuration stored at that moment: its method, its body (which
\* fetch sends with POST, PUT and PATCH only) and, for axios, its response
\* type; the response is decoded with the response type stored when it arrives.
C29_FluentCalls ==
  [][ /\ current' # current =>
           /\ UNCHANGED <<envVars, facadeVars, innerVars, chainVars, abortedInFlight, source>>
           /\ \E call \in FluentCalls, payload \in Payloads \cup {NoPayload} :
                current' = Fluent(current, call, payload)
      /\ \A s \in Chains :
           /\ Issued(s) =>
                /\ request'[s].method = current'.method
                /\ request'[s].body.of =
                     IF cfg.transport = "fetch" /\ current'.method \notin {"POST", "PUT", "PATCH"}
                       THEN NoPayload ELSE current'.data
                /\ cfg.transport = "axios" =>
                     request'[s].responseType = ActualResponseType(current'.responseType)
           /\ (pc[s] = "transport" /\ "ok" \in seen'[s] \ seen[s]) =>
                request'[s].parsedAs = current'.responseType
    ]_vars

\* a retry issued as a POST of payload "a", decoded as text, by a facade
\* constructed as GET / json: the fluent calls came after the construction
C29_Witness ==
  \E s \in Chains :
    /\ retried[s] /\ calls[s] = 2 /\ seen[s] = {"network", "ok"}
    /\ request[s].method = "POST" /\ request[s].body.of = "a"
    /\ request[s].parsedAs = "text"
    /\ current = [method |-> "POST", data |-> "a", responseType |-> "text"]

\* the second facade has been given every recorded outcome and is not in the
\* middle of a step of its own
Replayed ==
  /\ pair.phase = "fetch" /\ pair.script = <<>> /\ Len(pair.second) > 1
  /\ \A s \in Chains : pc[s] \in {"idle", "transport", "done"}

\* C28 (as claimed): for the same options and the same transport outcomes,
\* useFetch goes through the caller-visible states (data, error, loading,
\* isFinished, statusCode, canAbort, aborted) useAxiosFetch went through, and
\* makes no transport call beyond those useAxiosFetch made.
C28_TransportsAgree ==
  Replayed => (pair.second = pair.first /\ \A s \in Chains : pc[s] # "transport")

\* the value of option key for a request with explicit options O under the
\* defaults D: O's when O defines it, otherwise D's; two plain objects are
\* combined key by key in the same way
Effective(D, O, key) ==
  LET o == Get(O, key)
      d == Get(D, key)
  IN  IF o = UndefinedValue THEN d
      ELSE IF isPlainObject(o) /\ isPlainObject(d)
        THEN PlainValue([j \in {i \in SubKeys : GetNested(o, i) # "undefined"
                                                  \/ i \in DOMAIN d.obj} |->
                           IF GetNested(o, j) # "undefined" THEN GetNested(o, j)
                                                            ELSE d.obj[j]])
      ELSE o

\* C30: a request constructed under the defaults D with explicit options O has,
\* for every option, O's value when O defines it and otherwise D's, plain
\* objects being combined key by key; set(D2) leaves the request constructed
\* before it as it was and makes the defaults, option by option, D2's value
\* where D2 defines it and otherwise the earlier one; after reset the defaults
\* are empty, so a request constructed then has its explicit options only.
C30_DefaultsMerged ==
  [][ /\ mergedOptions' # mergedOptions =>
           /\ defaultOptions' = defaultOptions
           /\ \A key \in Keys :
                Get(mergedOptions'.merged, key)
                  = Effective(defaultOptions, mergedOptions'.options, key)
           /\ defaultOptions = EmptyOptions =>
                \A key \in Keys :
                  Get(mergedOptions'.merged, key) = Get(mergedOptions'.options, key)
      /\ defaultOptions' # defaultOptions =>
           /\ mergedOptions' = mergedOptions
           /\ \/ defaultOptions' = EmptyOptions
              \/ \E D2 \in OptionObjects :
                   \A key \in Keys :
                     Get(defaultOptions', key) = Effective(defaultOptions, D2, key)
    ]_vars

\* a request constructed after two set calls: its timeout is its own, its
\* headers combine header a of the first set, header b of the second and
\* nothing of its own
C30_Witness ==
  /\ mergedOptions.built
  /\ defaultOptions = [timeout |-> ScalarValue("x"),
                       headers |-> PlainValue([a |-> "x", b |-> "y"])]
  /\ mergedOptions.options = [timeout |-> ScalarValue("y"),
                              headers |-> PlainValue([a |-> "undefined"])]
  /\ mergedOptions.merged = [timeout |-> ScalarValue("y"),
                             headers |-> PlainValue([a |-> "x", b |-> "y"])]

\* C31 (as claimed): a write to the object get() returned, at its top level or
\* in a nested object, leaves the defaults of the manager (what a later get
\* returns and what a request constructed later is merged with) as they were.
C31_GetReturnsCopy ==
  [][(got' # got /\ got'.modified) => defaultOptions' = defaultOptions]_vars

\* C32 (as claimed): a POST of a plain object with responseType 'form' is sent
\* as a FormData with exactly one field per key of the object and without a
\* Content-Type header; a POST of a FormData is sent as that FormData, without
\* a Content-Type header.
C32_FormBody ==
  (request[1] # NoRequest /\ current.method = "POST") =>
    /\ (current.data.kind = "object" /\ current.responseType = "form") =>
         /\ request[1].body.kind = "FormData"
         /\ DOMAIN request[1].body.fields = DOMAIN current.data.fields
         /\ request[1].contentType = "none"
    /\ current.data.kind = "FormData" =>
         /\ request[1].body = current.data
         /\ request[1].contentType = "none"

\* the keys of a query string
KeysOf(query) == {query[i].key : i \in DOMAIN query}

\* C33 (as claimed): for GET/HEAD/DELETE in the native transport, the URL
\* beforeFetch is given carries every configured parameter that has a value,
\* and the URL passed to fetch names no parameter twice, whatever beforeFetch
\* answers and however many times execute() has run.
C33_ParamsNotDuplicated ==
  (request[1] # NoRequest /\ current.method \in ReadMethods) =>
    /\ \A k \in DOMAIN request[1].configured.of :
         request[1].configured.of[k] # "null" => k \in KeysOf(request[1].seen)
    /\ \A i, j \in DOMAIN request[1].url :
         request[1].url[i].key = request[1].url[j].key => i = j

\* C34: with the option pagination false, data of useTableStatic is every
\* source record that passes the filter, whatever currentPage and pageSize
\* are, and useTableRequest gives the fetcher no page index and no page size
\* and exposes every record of the fetcher's answer.
C34_NoPaging ==
  table.pagination = "false" =>
    /\ table.hook = "static" => table.data = filteredData(table)
    /\ table.hook = "request" =>
         /\ ~table.query.paged
         /\ table.response.ok => table.data = table.response.list

\* pagination false, page 2 of size 1 selected, and all three records in data
C34_Witness ==
  /\ table.hook = "static" /\ table.pagination = "false"
  /\ table.currentPage = 2 /\ table.pageSize = 1
  /\ Len(table.data) = 3

\* no attempt is in flight and no retry is pending
Quiescent == retryTimer = Null /\ \A s \in Chains : pc[s] \in {"idle", "done"}

\* C35 (as claimed): abort() called while no attempt is in flight and no retry
\* is pending leaves data, error, loading, isFinished, statusCode, canAbort and
\* aborted unchanged.
C35_IdleAbortIsNoOp ==
  [][(Quiescent /\ CallerAbort) =>
       UNCHANGED <<data, error, loading, isFinished, statusCode, canAbort, aborted>>]_vars

\* the executions started after chain s, and the step in which chain s ends
Later(s) == {t \in Chains : t > s /\ pc[t] # "idle"}

Settles(s) == pc[s] \notin {"idle", "done"} /\ pc'[s] = "done"

\* C36 (as claimed): when an execution ends after a later-started execution of
\* the same facade has ended, it changes none of data, error, statusCode,
\* loading and isFinished; when it ends while a later-started execution is
\* still in flight, loading stays true.
C36_LaterExecutionWins ==
  [][\A s \in Chains :
       Settles(s) =>
         /\ (\E t \in Later(s) : pc[t] = "done") =>
              UNCHANGED <<data, error, statusCode, loading, isFinished>>
         /\ (\E t \in Later(s) : pc'[t] # "done" /\ ~cancelled'[t]) => loading']_vars

\* C37 (as claimed): every execute() ends in a terminal state with loading
\* false and isFinished true, also when an interceptor or an observer throws.
\* An execution that has ended writes nothing any more, so the claim holds
\* only if the state is terminal at the step in which the execution ends.
C37_EndsFinished ==
  [][\A s \in Chains : Settles(s) => (~loading' /\ isFinished')]_vars

\* C38 (as claimed): once an attempt has written its successful response to
\* data and runs the response observers, its execution goes on to no retry
\* and no failure handling and leaves error unset, also when an observer
\* throws: it stays with the observers until it ends.
C38_SuccessIsFinal ==
  [][\A s \in Chains :
       pc[s] = "observers" => (pc'[s] \in {"observers", "done"} /\ error' = NoError)]_vars

\* C39 (as claimed): the options beforeFetch returns change the request of the
\* attempt only, not the stored method and data of the facade, so that the
\* next execute() builds its request from the configured values.
C39_OverridesAreLocal ==
  [][current' = current]_vars

\* the step starts the transport call of chain s
StartsCall(s) == pc[s] # "transport" /\ pc'[s] = "transport"

\* C40 (as claimed): with cancelOnBlur and the visibility listener attached, no
\* step starts a transport call while the page is hidden; an execute() called
\* while the page is hidden ends at once, cancelled and marked for resumption.
C40_NoCallWhileHidden ==
  [][(cfg.cancelOnBlur /\ VisListener /\ hidden /\ hidden') =>
       /\ \A s \in Chains : ~StartsCall(s)
       /\ \A s \in Chains :
            (pc[s] \in {"idle", "timer"} /\ pc'[s] # pc[s]) =>
              (pc'[s] = "done" /\ aborted' /\ wasCancelledDueToBlur')]_vars

====
